---- MODULE Spec2Model ----
(***************************************************************************)
(* Market-freshness tracking of medthehatta/elite-scripts.                 *)
(*                                                                         *)
(* Two stores are modelled:                                                *)
(*  - the MongoDB `market` collection written by the EDDN listener (feed)  *)
(*    and by the EDSM nightly-dump loader (bulk dump)  -> StoreSpec;       *)
(*  - the Redis `markets` / `stations` / `requests` namespaces used by the *)
(*    invalidator, the population tasks and the scan requests -> Spec.     *)
(***************************************************************************)
EXTENDS Integers, Sequences, FiniteSets, TLC

VARIABLES
    market,       \* MongoDB collection elite.market: sequence of documents
    lastWrite,    \* the last save_to_mongo call: its kind and converted input
    market_db,    \* Redis namespace "markets": stored key -> value
    station_db,   \* Redis namespace "stations": system name -> station names
    requests,     \* Redis namespace "requests": persisted scan requests
    tasks,        \* Celery population tasks, by task id
    feed,         \* the invalidator's position in its message handler
    status,       \* the last request_status call and what it returned
    planner,      \* the shell generator, its consumer and the last _which_bin
    fetch,        \* one _get_with_http call: its attempts and its outcome
    rank,         \* one sale query: its inputs and what the ranker returned
    memo,         \* the cache of a memoized request and its last call
    keyspace      \* the "markets" namespace under arbitrary names

storeVars == <<market, lastWrite>>
scanVars == <<market_db, station_db, requests, tasks, feed, status>>
toolVars == <<planner, fetch, rank, memo, keyspace>>
vars == <<market, lastWrite, market_db, station_db, requests, tasks, feed, status,
          planner, fetch, rank, memo, keyspace>>

----------------------------------------------------------------------------
(* Bounds of the model *)

MaxDocs == 2          \* documents the market collection may hold
MaxTime == 1          \* timestamps are 0..MaxTime
CubeUnits == 1000     \* rounding units per cubic light year
MaxRankDocs == 3      \* market documents a sale query may find

----------------------------------------------------------------------------
(* MongoDB market collection: feed and bulk-dump writers *)

\* (system, station) keys the feed and the dump report on
StoreKeys == {<<"Sol", "Galileo">>, <<"Sol", "Daedalus">>}

NoTime == -1                       \* update_time None
Times == 0..MaxTime
Payloads == {"[]", "[lines]"}      \* a commodity list: empty or not

MARKET_SCHEMA == "commodity/3"
Schemas == {MARKET_SCHEMA, "journal/1"}

\* conversion.from_eddn: the gateway timestamp is parsed and re-formatted as
\* ISO (the same instant), the commodity lines are copied
from_eddn(key, time, payload) ==
    [system |-> key[1], station |-> key[2],
     update_time |-> time, commodities |-> payload]

\* conversion.from_edsm: a station without updateTime.market converts to
\* update_time None and NO commodities, whatever the entry listed
from_edsm(key, time, payload) ==
    IF time = NoTime
    THEN [system |-> key[1], station |-> key[2],
          update_time |-> NoTime, commodities |-> "[]"]
    ELSE [system |-> key[1], station |-> key[2],
          update_time |-> time, commodities |-> payload]

\* listener/project/eddn_listener.py save_to_mongo: filter {system, station}
FeedFilter(d, c) == d.system = c.system /\ d.station = c.station

\* station_dump.py save_to_mongo: filter {system, station, source: {$ne: eddn}}
DumpFilterAnySource(d, c) == d.system = c.system /\ d.station = c.station

DumpFilter(d, c) ==
    d.system = c.system /\ d.station = c.station /\ d.source # "eddn"

\* the filter of the writer of that kind, on document d for the converted c
Filter(kind, d, c) ==
    IF kind = "feed" THEN FeedFilter(d, c) ELSE DumpFilter(d, c)

\* pymongo update_one(filter, {"$set": fields}, upsert=True): one of the
\* documents matching the filter is updated (which one, when several match,
\* is the server's scan order: any of them); when none matches a new
\* document is inserted.
Matching(coll, kind, c) == {i \in DOMAIN coll : Filter(kind, coll[i], c)}

update_one(coll, kind, c, doc) ==
    IF Matching(coll, kind, c) # {}
    THEN {[coll EXCEPT ![i] = doc] : i \in Matching(coll, kind, c)}
    ELSE {Append(coll, doc)}

\* no index is unique: an upsert that matches nothing always inserts
WouldInsert(coll, kind, c) == Matching(coll, kind, c) = {}

\* eddn_listener.save_to_mongo(data)
FeedWrite ==
    \E schema \in Schemas, key \in StoreKeys, t \in Times, p \in Payloads :
        LET c == from_eddn(key, t, p)
            doc == [system |-> c.system, station |-> c.station,
                    update_time |-> c.update_time,
                    commodities |-> c.commodities, source |-> "eddn"]
        IN  /\ UNCHANGED <<scanVars, toolVars>>
            /\ IF schema # MARKET_SCHEMA
              THEN /\ market' = market
                   /\ lastWrite' = [kind |-> "ignored", system |-> c.system,
                                    station |-> c.station, update_time |-> t]
              ELSE /\ WouldInsert(market, "feed", c) => Len(market) < MaxDocs
                   /\ market' \in update_one(market, "feed", c, doc)
                   /\ lastWrite' = [kind |-> "feed", system |-> c.system,
                                    station |-> c.station,
                                    update_time |-> c.update_time]

\* station_dump.save_to_mongo(data), the market part
DumpWrite ==
    \E key \in StoreKeys, t \in Times \cup {NoTime}, p \in Payloads :
        LET c == from_edsm(key, t, p)
            doc == [system |-> c.system, station |-> c.station,
                    update_time |-> c.update_time,
                    commodities |-> c.commodities, source |-> "edsm-dump"]
        IN  /\ UNCHANGED <<scanVars, toolVars>>
            /\ WouldInsert(market, "dump", c) => Len(market) < MaxDocs
            /\ market' \in update_one(market, "dump", c, doc)
            /\ lastWrite' = [kind |-> "dump", system |-> c.system,
                             station |-> c.station,
                             update_time |-> c.update_time]

StoreInit ==
    /\ market = <<>>
    /\ lastWrite = [kind |-> "none", system |-> "", station |-> "",
                    update_time |-> NoTime]

----------------------------------------------------------------------------
(* The data provider (EDSM): systems, distances, stations *)

\* sphere-systems answers in the provider's order, not by distance
SystemOrder ==
    << "Alpha Centauri", "Sol", "Sirius", "Barnard's Star", "Wolf 359",
       "Lalande 21185", "Luyten 726-8", "Ross 154", "Ross 248",
       "Epsilon Eridani", "Lacaille 9352", "Procyon" >>

\* distance from the query origin (Sol), in light years
Distance(name) ==
    CASE name = "Sol" -> 0
      [] name = "Alpha Centauri" -> 4
      [] name = "Barnard's Star" -> 6
      [] name = "Wolf 359" -> 8
      [] name = "Lalande 21185" -> 8
      [] name = "Sirius" -> 9
      [] name = "Luyten 726-8" -> 9
      [] name = "Ross 154" -> 10
      [] name = "Ross 248" -> 10
      [] name = "Epsilon Eridani" -> 11
      [] name = "Lacaille 9352" -> 11
      [] OTHER -> 12

Locations == {"Sol", "Nowhere"}      \* "Nowhere" is a name EDSM does not know
ScanRadii == {5}                     \* max_radius of the scans of Spec
FetchRadii == {3}                    \* max_radius of the scans of FetchSpec
DefaultInitialRadius == 15           \* request_near(location, initial_radius=15, ...)
\* the scans of PlanSpec: a region of twelve systems, and an unknown name
PlanInputs ==
    {[location |-> "Sol", initial_radius |-> 5, max_radius |-> 20],
     [location |-> "Nowhere", initial_radius |-> DefaultInitialRadius, max_radius |-> 5]}

\* the station list of a system, in the provider's order
StationsOf(name) ==
    IF name = "Sol"
    THEN << [name |-> "Galileo", type |-> "Ocellus Starport"],
            [name |-> "K7Q-BQL", type |-> "Fleet Carrier"],
            [name |-> "Daedalus", type |-> "Orbis Starport"] >>
    ELSE << >>

\* systems_in_sphere_raw(location, radius): the systems within radius, each
\* with its distance; nothing for an unknown system name
systems_in_sphere_raw(location, radius) ==
    IF location # "Sol" THEN << >>
    ELSE LET inside == SelectSeq(SystemOrder, LAMBDA n : Distance(n) <= radius)
         IN  [i \in DOMAIN inside |->
                 [name |-> inside[i], distance |-> Distance(inside[i])]]

----------------------------------------------------------------------------
(* market.DB over Redis *)

Absent == [json |-> "absent"]      \* the key is not in Redis
True == [json |-> "true"]          \* the stored JSON values true, false
False == [json |-> "false"]

\* DB._key: json.dumps([namespace, key]); inside one namespace the stored
\* key is the JSON list of the tuple's members
_key(key) == key

DirtyKey(system_name) == _key(<<"dirty", system_name>>)
SnapshotKey(system_name, station_name) == _key(<<system_name, station_name>>)

SystemNames == {SystemOrder[i] : i \in DOMAIN SystemOrder}

StationKeys ==
    UNION {{<<n, StationsOf(n)[j].name>> : j \in DOMAIN StationsOf(n)} :
              n \in SystemNames}

MarketKeys ==
    {DirtyKey(n) : n \in SystemNames} \cup
    {SnapshotKey(k[1], k[2]) : k \in StationKeys}

db_exists(db, key) == db[_key(key)] # Absent
db_get(db, key, default) ==
    IF db[_key(key)] # Absent THEN db[_key(key)] ELSE default
db_set(db, key, value) == [db EXCEPT ![_key(key)] = value]
db_invalidate(db, key) == [db EXCEPT ![_key(key)] = Absent]

None == [json |-> "null"]          \* Python None, the default of _dirty

\* _dirty(system) of request_near and request_status
_dirty(db, system_name) == db_get(db, <<"dirty", system_name>>, None)

----------------------------------------------------------------------------
(* SpatialScanPlanner *)

\* A radius is kept as its CUBE, counted in units of 1/CubeUnits cubic
\* light years: the unit stands for the rounding error of one computed
\* root, which the float arithmetic may make in either direction.
Cube(x) == CubeUnits * x * x * x

Roundings == {-1, 0, 1}

\* a step that forgets the inner radius
ShellStepNoInner(c0, c1, e) == 2 * c1 + e

\* r2 = (2 * r1**3 - r0**3)**(1/3): the cube of the computed r2, off by the
\* rounding e of the root
ShellStep(c0, c1, e) == 2 * c1 - c0 + e

\* equal_volume_shells(r): the shells yielded so far; errs are the rounding
\* errors of the roots computed after the first shell
RECURSIVE ShellCubes(_, _, _, _)
ShellCubes(c0, c1, errs, acc) ==
    IF errs = << >> THEN acc
    ELSE ShellCubes(c1, ShellStep(c0, c1, Head(errs)), Tail(errs),
                    Append(acc, <<c1, ShellStep(c0, c1, Head(errs))>>))

equal_volume_shells(r, errs) == ShellCubes(0, Cube(r), errs, << <<0, Cube(r)>> >>)

\* a consumer takes shells while the shell's lower bound is below max_radius
\* (here with every root exact)
ShellsBelow(r, max_radius) ==
    SelectSeq(equal_volume_shells(r, [i \in 1..(Cube(max_radius) \div Cube(r))
                                         |-> 0]),
              LAMBDA shell : shell[1] < Cube(max_radius))

\* _which_bin(system, shells): the first shell with r0 <= distance <= r1;
\* next() on no match raises StopIteration: -1
_which_bin(system, shells) ==
    LET hits == {i \in DOMAIN shells :
                    /\ shells[i][1] <= Cube(system.distance)
                    /\ Cube(system.distance) <= shells[i][2]}
    IN  IF hits = {} THEN -1
        ELSE (CHOOSE i \in hits : \A j \in hits : i <= j) - 1

\* initial radius and max radius of the generator runs, and the distances
\* _which_bin is asked about
ShellInputs ==
    {[r |-> 3, max_radius |-> 3], [r |-> 2, max_radius |-> 3],
     [r |-> 5, max_radius |-> 8]}
BinDistances == 0..8

PlannerIdle ==
    [pc |-> "idle", r |-> 0, max_radius |-> 0, r0 |-> 0, r1 |-> 0,
     shells |-> << >>, last |-> << >>, distance |-> 0, bin |-> -1]

\* a start that leaves r1 at 0 after the first shell
ShellsStartKeepsR1 ==
    /\ planner.pc = "idle"
    /\ \E in \in ShellInputs :
          planner' = [PlannerIdle EXCEPT !.pc = "gen", !.r = in.r,
                                        !.max_radius = in.max_radius,
                                        !.r0 = 0, !.r1 = 0,
                                        !.shells = << <<0, Cube(in.r)>> >>]
    /\ UNCHANGED <<storeVars, scanVars, fetch, rank, memo, keyspace>>

\* the generator is created and its first shell (0, r) pulled and taken
ShellsStart ==
    /\ planner.pc = "idle"
    /\ \E in \in ShellInputs :
          planner' = [PlannerIdle EXCEPT !.pc = "gen", !.r = in.r,
                                        !.max_radius = in.max_radius,
                                        !.r0 = 0, !.r1 = Cube(in.r),
                                        !.shells = << <<0, Cube(in.r)>> >>]
    /\ UNCHANGED <<storeVars, scanVars, fetch, rank, memo, keyspace>>

\* the next shell (r1, r2) is pulled: it is taken while its lower bound is
\* below max_radius, otherwise the consumer stops
ShellsTake ==
    /\ planner.pc = "gen"
    /\ \E e \in Roundings :
          LET c2 == ShellStep(planner.r0, planner.r1, e)
              shell == <<planner.r1, c2>>
          IN  planner' =
                IF shell[1] < Cube(planner.max_radius)
                THEN [planner EXCEPT !.shells = Append(@, shell),
                                     !.r0 = planner.r1, !.r1 = c2]
                ELSE [planner EXCEPT !.pc = "done", !.last = shell,
                                     !.r0 = planner.r1, !.r1 = c2]
    /\ UNCHANGED <<storeVars, scanVars, fetch, rank, memo, keyspace>>

\* _which_bin(system, shells) over the taken shells
WhichBin ==
    /\ planner.pc = "done"
    /\ \E d \in BinDistances :
          planner' = [planner EXCEPT
                         !.distance = d,
                         !.bin = _which_bin([distance |-> d], planner.shells)]
    /\ UNCHANGED <<storeVars, scanVars, fetch, rank, memo, keyspace>>

----------------------------------------------------------------------------
(* ScanOrchestrator: request_near and request_status *)

BatchSize == 10                    \* partition_all(10, ...)

\* sorted(seq, key=distance): Python's sort is stable
RECURSIVE InsertByDistance(_, _)
InsertByDistance(sorted, x) ==
    IF sorted = << >> THEN <<x>>
    ELSE IF Head(sorted).distance <= x.distance
         THEN <<Head(sorted)>> \o InsertByDistance(Tail(sorted), x)
         ELSE <<x>> \o sorted

RECURSIVE SortByDistance(_)
SortByDistance(seq) ==
    IF seq = << >> THEN << >>
    ELSE InsertByDistance(SortByDistance(SubSeq(seq, 1, Len(seq) - 1)),
                          seq[Len(seq)])

\* cytoolz.partition(n, seq): full tuples only, the remainder is dropped
RECURSIVE partition_full(_, _)
partition_full(n, seq) ==
    IF Len(seq) < n THEN << >>
    ELSE <<SubSeq(seq, 1, n)>> \o partition_full(n, SubSeq(seq, n + 1, Len(seq)))

\* cytoolz.partition_all(n, seq)
RECURSIVE partition_all(_, _)
partition_all(n, seq) ==
    IF seq = << >> THEN << >>
    ELSE IF Len(seq) <= n THEN <<seq>>
         ELSE <<SubSeq(seq, 1, n)>> \o partition_all(n, SubSeq(seq, n + 1, Len(seq)))

\* groupby(_dirty, systems).get(value, [])
DirtyGroup(db, systems, value) ==
    SelectSeq(systems, LAMBDA s : _dirty(db, s.name) = value)

\* need_update = dirty.get(True, []) + dirty.get(None, [])
NeedUpdateOnlyUnknown(db, systems) == DirtyGroup(db, systems, None)

NeedUpdate(db, systems) ==
    DirtyGroup(db, systems, True) \o DirtyGroup(db, systems, None)

\* task_systems = list(partition_all(10, sorted(need_update, key=distance)))
TaskSystemsUnsorted(db, systems) ==
    partition_all(BatchSize, NeedUpdate(db, systems))

TaskSystems(db, systems) ==
    partition_all(BatchSize, SortByDistance(NeedUpdate(db, systems)))

\* the task record populate_markets.delay(batch) creates
NewTask(batch) ==
    [systems |-> batch, state |-> "PENDING",
     item |-> [i \in DOMAIN batch |-> [phase |-> "queued", st |-> << >>]]]

\* request_near(location, initial_radius, max_radius)
RequestRecord(db, first_task, request_id, location, initial_radius, max_radius) ==
    LET systems == systems_in_sphere_raw(location, max_radius)
        task_systems == TaskSystems(db, systems)
    IN  [request_id |-> request_id,
         location |-> location,
         max_radius |-> max_radius,
         initial_radius |-> initial_radius,
         systems |-> systems,
         system_names |-> [i \in DOMAIN systems |-> systems[i].name],
         tasks |-> [i \in DOMAIN task_systems |->
                       [task_id |-> first_task + i - 1,
                        shell |-> i - 1,
                        systems |-> task_systems[i]]]]

request_near(location, initial_radius, max_radius) ==
    LET request == RequestRecord(market_db, Len(tasks) + 1, Len(requests) + 1,
                                 location, initial_radius, max_radius)
    IN  /\ tasks' = tasks \o [i \in DOMAIN request.tasks |->
                                  NewTask(request.tasks[i].systems)]
        /\ requests' = Append(requests, request)

\* request_status: system_completion, the size of each group of
\* groupby(_dirty, request["systems"]) under its label
Label(value) ==
    IF value = True THEN "Partial"
    ELSE IF value = False THEN "Complete" ELSE "Pending"

\* the counts as they were when the request was persisted with nothing cached
system_completion_frozen(db, request) ==
    [label \in {"Partial", "Complete", "Pending"} |->
        IF label = "Pending" THEN Len(request.systems) ELSE 0]

system_completion(db, request) ==
    [label \in {"Partial", "Complete", "Pending"} |->
        Len(SelectSeq(request.systems,
                      LAMBDA x : Label(_dirty(db, x.name)) = label))]

\* 100 * (Complete / (Complete + Partial + Pending)), as a fraction
PercentOfPartial(compl) ==
    [num |-> 100 * compl["Partial"],
     den |-> compl["Complete"] + compl["Partial"] + compl["Pending"]]

system_completion_percent(compl) ==
    [num |-> 100 * compl["Complete"],
     den |-> compl["Complete"] + compl["Partial"] + compl["Pending"]]

\* request_status(request_id), for a persisted request
request_status(db, tsk, request) ==
    LET compl == system_completion(db, request)
        ids == {request.tasks[i].task_id : i \in DOMAIN request.tasks}
    IN  IF compl["Complete"] + compl["Partial"] + compl["Pending"] = 0
        THEN [ok |-> FALSE, error |-> "ZeroDivisionError"]
        ELSE [ok |-> TRUE,
              request_id |-> request.request_id,
              system_completion |-> compl,
              system_completion_percent |-> system_completion_percent(compl),
              tasks |-> [state \in {"PENDING", "SUCCESS", "FAILURE"} |->
                            {t \in ids : tsk[t].state = state}],
              unfinished_shells |-> {t \in ids : tsk[t].state # "SUCCESS"}]

----------------------------------------------------------------------------
(* The feed consumer: eddn_market_invalidator.main and market.invalidate *)

\* markets_in_system: the station types it leaves out
disallowed_types == {"Odyssey Settlement", "Fleet Carrier"}

\* the stations markets_in_system keeps
EligibleStations(system_name) ==
    SelectSeq(StationsOf(system_name), LAMBDA x : x.type \notin disallowed_types)

\* the _market calls that have requested the market of key and not yet
\* stored it
InFlight(key) ==
    UNION {UNION {{<<t, i, j>> :
                      j \in {k \in DOMAIN tasks[t].item[i].st :
                                /\ tasks[t].item[i].st[k] = "fetching"
                                /\ EligibleStations(tasks[t].systems[i].name)[k].name
                                      = key[2]}} :
                   i \in {k \in DOMAIN tasks[t].item :
                             tasks[t].systems[k].name = key[1]}} :
           t \in DOMAIN tasks}

\* inflight: for a record that was skipped, the _market calls that were
\* waiting for the market of its key when it was handled
FeedIdle ==
    [pc |-> "recv", schema |-> "", system |-> "", station |-> "",
     handled |-> "none", inflight |-> {}]

\* the handler's test before it invalidates
ShouldInvalidateAlways(db, schema, key) == schema = MARKET_SCHEMA

ShouldInvalidate(db, schema, key) ==
    schema = MARKET_SCHEMA /\ db_exists(db, key)

\* a handler that does not look at $schemaRef
FeedRecvAnySchema ==
    /\ feed.pc = "recv"
    /\ \E schema \in Schemas, key \in StationKeys :
          feed' = IF db_exists(market_db, key)
                  THEN [pc |-> "delete", schema |-> schema, system |-> key[1],
                        station |-> key[2], handled |-> "invalidate",
                        inflight |-> {}]
                  ELSE [pc |-> "recv", schema |-> schema, system |-> key[1],
                        station |-> key[2], handled |-> "skip",
                        inflight |-> InFlight(key)]
    /\ UNCHANGED <<market_db, station_db, requests, tasks>>
    /\ UNCHANGED <<storeVars, toolVars, status>>

\* one message is received and decoded; it is invalidated only when its
\* schema is the commodity schema and its market is in the cache
FeedRecv ==
    /\ feed.pc = "recv"
    /\ \E schema \in Schemas, key \in StationKeys :
          feed' = IF ShouldInvalidate(market_db, schema, key)
                  THEN [pc |-> "delete", schema |-> schema, system |-> key[1],
                        station |-> key[2], handled |-> "invalidate",
                        inflight |-> {}]
                  ELSE IF schema = MARKET_SCHEMA
                  THEN [pc |-> "recv", schema |-> schema, system |-> key[1],
                        station |-> key[2], handled |-> "skip",
                        inflight |-> InFlight(key)]
                  ELSE [pc |-> "recv", schema |-> schema, system |-> "",
                        station |-> "", handled |-> "ignored",
                        inflight |-> {}]
    /\ UNCHANGED <<market_db, station_db, requests, tasks>>
    /\ UNCHANGED <<storeVars, toolVars, status>>

\* invalidate: market_db.invalidate((system_name, station_name))
FeedDelete ==
    /\ feed.pc = "delete"
    /\ market_db' = db_invalidate(market_db, <<feed.system, feed.station>>)
    /\ feed' = [feed EXCEPT !.pc = "flag"]
    /\ UNCHANGED <<station_db, requests, tasks>>
    /\ UNCHANGED <<storeVars, toolVars, status>>

\* invalidate: market_db.set(("dirty", system_name), True)
FeedSetDirty ==
    /\ feed.pc = "flag"
    /\ market_db' = db_set(market_db, <<"dirty", feed.system>>, True)
    /\ feed' = FeedIdle
    /\ UNCHANGED <<station_db, requests, tasks>>
    /\ UNCHANGED <<storeVars, toolVars, status>>

\* what a message that is not a well-formed record raises in the handler:
\* zlib.decompress, json.loads, data["$schemaRef"] or data["message"][...]
InputFaults == {"zlib.error", "JSONDecodeError", "KeyError"}

\* main: the handler raises on the message; the only except clause is for
\* zmq.ZMQError, so the exception leaves main and the process ends
FeedMalformed ==
    /\ feed.pc = "recv"
    /\ \E fault \in InputFaults :
          feed' = [FeedIdle EXCEPT !.pc = "crashed", !.handled = fault]
    /\ UNCHANGED <<market_db, station_db, requests, tasks>>
    /\ UNCHANGED <<storeVars, toolVars, status>>

\* main: subscriber.recv() raises zmq.ZMQError; the consumer disconnects
\* and sleeps
FeedTransportError ==
    /\ feed.pc = "recv"
    /\ feed' = [FeedIdle EXCEPT !.pc = "sleep", !.handled = "ZMQError"]
    /\ UNCHANGED <<market_db, station_db, requests, tasks>>
    /\ UNCHANGED <<storeVars, toolVars, status>>

\* main: the sleep is over, the outer loop connects again
FeedReconnect ==
    /\ feed.pc = "sleep"
    /\ feed' = [FeedIdle EXCEPT !.handled = "reconnected"]
    /\ UNCHANGED <<market_db, station_db, requests, tasks>>
    /\ UNCHANGED <<storeVars, toolVars, status>>

----------------------------------------------------------------------------
(* MarketPopulator: tasks.populate_markets and market.markets_in_system *)

PopulateWorkers == 4               \* ThreadPoolExecutor(max_workers=4)
MarketWorkers == 6                 \* ThreadPoolExecutor(max_workers=6)

\* the value _market stores: {"market": raw, "station": ..., "system": ...}
Snapshot(system_name, station_name) ==
    [market |-> "raw", station |-> station_name, system |-> system_name]

Terminal == {"done", "failed", "cancelled"}

\* Executor.map hands out results in order: the consumer meets a failure
\* once every earlier item is done, and then cancels what has not started
ConsumerSawFailure(pcs) ==
    \E k \in DOMAIN pcs : pcs[k] = "failed" /\ \A j \in 1..(k - 1) : pcs[j] = "done"

CancelQueued(pcs) ==
    [k \in DOMAIN pcs |-> IF pcs[k] = "queued" THEN "cancelled" ELSE pcs[k]]

Phases(t) == [i \in DOMAIN tasks[t].item |-> tasks[t].item[i].phase]

SetItem(t, i, item) == tasks' = [tasks EXCEPT ![t].item[i] = item]
SetStation(t, i, j, pc) == tasks' = [tasks EXCEPT ![t].item[i].st[j] = pc]

\* a pool worker takes the next system of the batch: stations_in_system
SystemStart(t, i) ==
    /\ tasks[t].state = "PENDING"
    /\ tasks[t].item[i].phase = "queued"
    /\ \A j \in 1..(i - 1) : tasks[t].item[j].phase # "queued"
    /\ Cardinality({j \in DOMAIN tasks[t].item :
                       tasks[t].item[j].phase = "running"}) < PopulateWorkers
    /\ LET name == tasks[t].systems[i].name
           all == StationsOf(name)
       IN  \E http_ok \in BOOLEAN :
             IF http_ok
             THEN /\ station_db' = [station_db EXCEPT ![name] =
                                       [names |-> [j \in DOMAIN all |->
                                                      all[j].name]]]
                  /\ SetItem(t, i, [phase |-> "running",
                                    st |-> [j \in DOMAIN EligibleStations(name)
                                               |-> "queued"]])
             ELSE /\ SetItem(t, i, [phase |-> "failed", st |-> << >>])
                  /\ UNCHANGED station_db
    /\ UNCHANGED <<market_db, requests, feed>>
    /\ UNCHANGED <<storeVars, toolVars, status>>

\* _market(station): if not market_db.exists(key) the market is requested
MustFetchAlways(db, key) == TRUE

MustFetch(db, key) == ~db_exists(db, key)

MarketCheck(t, i, j) ==
    /\ tasks[t].item[i].phase = "running"
    /\ tasks[t].item[i].st[j] = "queued"
    /\ \A k \in 1..(j - 1) : tasks[t].item[i].st[k] # "queued"
    /\ Cardinality({k \in DOMAIN tasks[t].item[i].st :
                       tasks[t].item[i].st[k] \in {"fetching", "get"}})
          < MarketWorkers
    /\ LET name == tasks[t].systems[i].name
           key == <<name, EligibleStations(name)[j].name>>
       IN  SetStation(t, i, j, IF MustFetch(market_db, key)
                               THEN "fetching" ELSE "get")
    /\ UNCHANGED <<market_db, station_db, requests, feed>>
    /\ UNCHANGED <<storeVars, toolVars, status>>

\* _market(station): market_in_station_raw answers and the result is set,
\* or the request fails for good and raises
MarketFetch(t, i, j) ==
    /\ tasks[t].item[i].phase = "running"
    /\ tasks[t].item[i].st[j] = "fetching"
    /\ LET name == tasks[t].systems[i].name
           station == EligibleStations(name)[j].name
       IN  \E http_ok \in BOOLEAN :
             IF http_ok
             THEN /\ market_db' = db_set(market_db, <<name, station>>,
                                         Snapshot(name, station))
                  /\ SetStation(t, i, j, "get")
             ELSE /\ SetStation(t, i, j, "failed")
                  /\ UNCHANGED market_db
    /\ UNCHANGED <<station_db, requests, feed>>
    /\ UNCHANGED <<storeVars, toolVars, status>>

----------------------------------------------------------------------------
(* RateLimitedFetcher: _get_with_http under @retry *)

stop_max_attempt_number == 3
request_preroll == 50

\* the response headers the fetcher reads, each the integer its text denotes
HeaderNames == {"X-Rate-Limit-Limit", "X-Rate-Limit-Reset", "Retry-After"}
NoHeaders == [n \in {} |-> 0]
HeaderSets ==
    {NoHeaders,
     [n \in HeaderNames |->
         CASE n = "X-Rate-Limit-Limit" -> 720
           [] n = "X-Rate-Limit-Reset" -> 60
           [] OTHER -> 2]}

\* status 0: requests.get raised before any response (no connection)
NoResponse == [status_code |-> 0, headers |-> NoHeaders]
Responses ==
    {NoResponse} \cup
    [status_code : {200, 429, 503}, headers : HeaderSets]

\* int(r.headers.get(name, default))
HeaderInt(r, name, default) ==
    IF name \in DOMAIN r.headers THEN r.headers[name] ELSE default

rate_limit(r) == HeaderInt(r, "X-Rate-Limit-Limit", 720)
rate_reset(r) == HeaderInt(r, "X-Rate-Limit-Reset", 0)
retry_after(r) == HeaderInt(r, "Retry-After", 0)

\* durations in seconds, as fractions num/den
NoSleep == [num |-> -1, den |-> 1]

\* request_interval = rate_reset/rate_limit
request_interval(r) == [num |-> rate_reset(r), den |-> rate_limit(r)]

\* time.sleep(retry_after + request_preroll * request_interval)
ThrottleSleepRetryAfterOnly(r) ==
    [num |-> retry_after(r) * rate_limit(r), den |-> rate_limit(r)]

ThrottleSleep(r) ==
    [num |-> retry_after(r) * request_interval(r).den
                + request_preroll * request_interval(r).num,
     den |-> request_interval(r).den]

NoError == [kind |-> "none", attempt |-> 0, response |-> NoResponse]

FetchIdle ==
    [pc |-> "idle", owner |-> << >>, attempt |-> 0, sent |-> 0,
     response |-> NoResponse, slept |-> NoSleep, error |-> NoError]

\* @retry: an attempt raised; the call is retried unless this was attempt
\* stop_max_attempt_number, and then the attempt's exception is re-raised
AfterFailureKeepsFirst(f, error) ==
    IF f.attempt >= stop_max_attempt_number
    THEN [f EXCEPT !.pc = "raised",
                   !.error = IF f.error = NoError THEN error ELSE f.error]
    ELSE [f EXCEPT !.pc = "send", !.attempt = f.attempt + 1,
                   !.error = IF f.error = NoError THEN error ELSE f.error]

AfterFailure(f, error) ==
    IF f.attempt >= stop_max_attempt_number
    THEN [f EXCEPT !.pc = "raised", !.error = error]
    ELSE [f EXCEPT !.pc = "send", !.attempt = f.attempt + 1, !.error = error]

\* _market(station) calls market_in_station_raw: attempt 1 begins
FetchCall(t, i, j) ==
    /\ tasks[t].item[i].phase = "running"
    /\ tasks[t].item[i].st[j] = "fetching"
    /\ fetch.pc = "idle"
    /\ fetch' = [FetchIdle EXCEPT !.pc = "send", !.owner = <<t, i, j>>,
                                  !.attempt = 1]
    /\ UNCHANGED <<scanVars, storeVars, planner, rank, memo, keyspace>>

\* requests.get(url, params=params) goes out
FetchSend ==
    /\ fetch.pc = "send"
    /\ fetch' = [fetch EXCEPT !.pc = "wait", !.sent = @ + 1]
    /\ UNCHANGED <<scanVars, storeVars, planner, rank, memo, keyspace>>

\* the answer to the request: no connection, a throttling 429 (the sleep
\* begins), another failure status, or a success (the pacing sleep begins)
FetchReceive ==
    /\ fetch.pc = "wait"
    /\ \E r \in Responses :
          fetch' =
            CASE r = NoResponse ->
                   AfterFailure([fetch EXCEPT !.response = r, !.slept = NoSleep],
                                [kind |-> "ConnectionError",
                                 attempt |-> fetch.attempt, response |-> r])
              [] r.status_code = 429 ->
                   [fetch EXCEPT !.pc = "throttled", !.response = r,
                                 !.slept = NoSleep]
              [] r.status_code \in 400..599 /\ r.status_code # 429 ->
                   AfterFailure([fetch EXCEPT !.response = r, !.slept = NoSleep],
                                [kind |-> "HTTPError",
                                 attempt |-> fetch.attempt, response |-> r])
              [] OTHER ->
                   [fetch EXCEPT !.pc = "pacing", !.response = r,
                                 !.slept = NoSleep]
    /\ UNCHANGED <<scanVars, storeVars, planner, rank, memo, keyspace>>

\* the sleep is over: after a 429, raise_for_status raises and the attempt
\* has failed; after a success the response is returned
FetchWakeUncounted ==
    /\ fetch.pc \in {"throttled", "pacing"}
    /\ fetch' =
          IF fetch.pc = "throttled"
          THEN [fetch EXCEPT !.pc = "send",
                             !.slept = ThrottleSleep(fetch.response)]
          ELSE [fetch EXCEPT !.pc = "returned",
                             !.slept = request_interval(fetch.response)]
    /\ UNCHANGED <<scanVars, storeVars, planner, rank, memo, keyspace>>

FetchWake ==
    /\ fetch.pc \in {"throttled", "pacing"}
    /\ fetch' =
          IF fetch.pc = "throttled"
          THEN AfterFailure([fetch EXCEPT !.slept = ThrottleSleep(fetch.response)],
                            [kind |-> "HTTPError", attempt |-> fetch.attempt,
                             response |-> fetch.response])
          ELSE [fetch EXCEPT !.pc = "returned",
                             !.slept = request_interval(fetch.response)]
    /\ UNCHANGED <<scanVars, storeVars, planner, rank, memo, keyspace>>

\* _market(station): the market came back and market_db.set(key, result)
MarketStore ==
    /\ fetch.pc = "returned"
    /\ LET t == fetch.owner[1]
           i == fetch.owner[2]
           j == fetch.owner[3]
           name == tasks[t].systems[i].name
           station == EligibleStations(name)[j].name
       IN  /\ market_db' = db_set(market_db, <<name, station>>,
                                  Snapshot(name, station))
           /\ SetStation(t, i, j, "get")
    /\ fetch' = FetchIdle
    /\ UNCHANGED <<station_db, requests, feed, status, storeVars, planner,
                   rank, memo,
                   keyspace>>

\* _market(station): market_in_station_raw raised, and so does _market
MarketRaise ==
    /\ fetch.pc = "raised"
    /\ SetStation(fetch.owner[1], fetch.owner[2], fetch.owner[3], "failed")
    /\ fetch' = FetchIdle
    /\ UNCHANGED <<market_db, station_db, requests, feed, status, storeVars,
                   planner, rank, memo,
                   keyspace>>

\* _market(station): return market_db.get(key), LookupError when it is gone
MarketGet(t, i, j) ==
    /\ tasks[t].item[i].phase = "running"
    /\ tasks[t].item[i].st[j] = "get"
    /\ LET name == tasks[t].systems[i].name
           key == <<name, EligibleStations(name)[j].name>>
       IN  SetStation(t, i, j, IF db_exists(market_db, key)
                               THEN "done" ELSE "failed")
    /\ UNCHANGED <<market_db, station_db, requests, feed>>
    /\ UNCHANGED <<storeVars, toolVars, status>>

\* markets_in_system: exe.map met a failed station and cancels the unstarted
CancelStations(t, i) ==
    /\ tasks[t].item[i].phase = "running"
    /\ ConsumerSawFailure(tasks[t].item[i].st)
    /\ \E k \in DOMAIN tasks[t].item[i].st : tasks[t].item[i].st[k] = "queued"
    /\ tasks' = [tasks EXCEPT ![t].item[i].st = CancelQueued(@)]
    /\ UNCHANGED <<market_db, station_db, requests, feed>>
    /\ UNCHANGED <<storeVars, toolVars, status>>

\* markets_in_system returns the list of markets, or raises what a station
\* raised, once its pool has shut down
SystemFinish(t, i) ==
    /\ tasks[t].item[i].phase = "running"
    /\ \A k \in DOMAIN tasks[t].item[i].st : tasks[t].item[i].st[k] \in Terminal
    /\ SetItem(t, i, [phase |-> IF \A k \in DOMAIN tasks[t].item[i].st :
                                        tasks[t].item[i].st[k] = "done"
                                 THEN "done" ELSE "failed",
                      st |-> << >>])
    /\ UNCHANGED <<market_db, station_db, requests, feed>>
    /\ UNCHANGED <<storeVars, toolVars, status>>

\* populate_markets: exe.map met a failed system and cancels the unstarted
CancelSystems(t) ==
    /\ tasks[t].state = "PENDING"
    /\ ConsumerSawFailure(Phases(t))
    /\ \E i \in DOMAIN tasks[t].item : tasks[t].item[i].phase = "queued"
    /\ tasks' = [tasks EXCEPT ![t].item =
                    [i \in DOMAIN @ |->
                        IF @[i].phase = "queued"
                        THEN [@[i] EXCEPT !.phase = "cancelled"] ELSE @[i]]]
    /\ UNCHANGED <<market_db, station_db, requests, feed>>
    /\ UNCHANGED <<storeVars, toolVars, status>>

\* populate_markets returns {"ok": True, ...} or raises: the task's state
TaskFinish(t) ==
    /\ tasks[t].state = "PENDING"
    /\ \A i \in DOMAIN tasks[t].item : tasks[t].item[i].phase \in Terminal
    /\ tasks' = [tasks EXCEPT ![t].state =
                    IF \A i \in DOMAIN tasks[t].item :
                           tasks[t].item[i].phase = "done"
                    THEN "SUCCESS" ELSE "FAILURE"]
    /\ UNCHANGED <<market_db, station_db, requests, feed>>
    /\ UNCHANGED <<storeVars, toolVars, status>>

----------------------------------------------------------------------------
(* Specifications *)

MaxScans == 1                      \* scan requests issued in Spec
MaxRequests == 2                   \* scan requests issued in PlanSpec
MaxFetchScans == 1    \* scans whose market fetches are followed attempt by attempt
MaxLargeScans == 1                 \* scan requests issued in FailSpec
MaxOverlapScans == 2               \* scans of one region started together

\* POST /scan with the default initial radius; the tasks run step by step
StartScan ==
    /\ Len(requests) < MaxScans
    /\ \E location \in Locations, max_radius \in ScanRadii :
          request_near(location, DefaultInitialRadius, max_radius)
    /\ UNCHANGED <<market_db, station_db, feed>>
    /\ UNCHANGED <<storeVars, toolVars, status>>

\* POST /scan over the small and the large region
PlanScan ==
    /\ Len(requests) < MaxRequests
    /\ \E in \in PlanInputs :
          request_near(in.location, in.initial_radius, in.max_radius)
    /\ UNCHANGED <<market_db, station_db, feed>>
    /\ UNCHANGED <<storeVars, toolVars, status>>

\* POST /scan over the large region, in the runs where tasks may fail
LargeScan ==
    /\ Len(requests) < MaxLargeScans
    /\ request_near("Sol", 5, 20)
    /\ UNCHANGED <<market_db, station_db, feed>>
    /\ UNCHANGED <<storeVars, toolVars, status>>

\* a status call that drops the finished tasks from the stored request
RequestStatusPruning ==
    /\ \E r \in DOMAIN requests :
          /\ status' = [request_id |-> r,
                        result |-> request_status(market_db, tasks, requests[r])]
          /\ requests' = [requests EXCEPT ![r].tasks =
                              SelectSeq(@, LAMBDA x :
                                  tasks[x.task_id].state = "PENDING")]
    /\ UNCHANGED <<market_db, station_db, tasks, feed>>
    /\ UNCHANGED <<storeVars, toolVars>>

\* GET /scan/{scan_id} for a persisted request
RequestStatus ==
    /\ \E r \in DOMAIN requests :
          status' = [request_id |-> r,
                     result |-> request_status(market_db, tasks, requests[r])]
    /\ UNCHANGED <<market_db, station_db, requests, tasks, feed>>
    /\ UNCHANGED <<storeVars, toolVars>>

\* populate_markets(batch) run from start to end with every request
\* answered and no other process in between (Spec has the interleavings)
PopulatedMarkets(db, batch) ==
    [k \in DOMAIN db |->
        IF \E i \in DOMAIN batch :
              \E j \in DOMAIN EligibleStations(batch[i].name) :
                  /\ k = SnapshotKey(batch[i].name,
                                     EligibleStations(batch[i].name)[j].name)
                  /\ MustFetch(db, <<batch[i].name,
                                     EligibleStations(batch[i].name)[j].name>>)
        THEN Snapshot(k[1], k[2])
        ELSE db[k]]

PopulateTask ==
    \E t \in DOMAIN tasks :
        /\ tasks[t].state = "PENDING"
        /\ market_db' = PopulatedMarkets(market_db, tasks[t].systems)
        /\ station_db' =
              [n \in DOMAIN station_db |->
                  IF \E i \in DOMAIN tasks[t].systems : tasks[t].systems[i].name = n
                  THEN [names |-> [j \in DOMAIN StationsOf(n) |->
                                      StationsOf(n)[j].name]]
                  ELSE station_db[n]]
        /\ tasks' = [tasks EXCEPT ![t] =
                        [@ EXCEPT !.state = "SUCCESS",
                                  !.item = [i \in DOMAIN @ |->
                                               [phase |-> "done", st |-> << >>]]]]
        /\ UNCHANGED <<requests, feed>>
        /\ UNCHANGED <<storeVars, toolVars, status>>

\* the snapshots a run of populate_markets(batch) may still have to fetch
MissingKeys(db, batch) ==
    {k \in StationKeys :
        /\ \E i \in DOMAIN batch : batch[i].name = k[1]
        /\ \E j \in DOMAIN EligibleStations(k[1]) :
              EligibleStations(k[1])[j].name = k[2]
        /\ MustFetch(db, k)}

\* a failing run that also fails every other task there is
PopulateTaskFailsAll ==
    /\ \E t \in DOMAIN tasks : tasks[t].state = "PENDING"
    /\ tasks' = [t \in DOMAIN tasks |->
                    [tasks[t] EXCEPT !.state = "FAILURE",
                                     !.item = [i \in DOMAIN @ |->
                                                  [phase |-> "failed",
                                                   st |-> << >>]]]]
    /\ UNCHANGED <<market_db, station_db, requests, feed>>
    /\ UNCHANGED <<storeVars, toolVars, status>>

\* populate_markets(batch) run from start to end where a request fails for
\* good: the exception leaves the task FAILURE, and the snapshots the pool's
\* workers stored before the pool shut down stay stored
PopulateTaskFails ==
    \E t \in DOMAIN tasks :
        /\ tasks[t].state = "PENDING"
        /\ \E written \in SUBSET MissingKeys(market_db, tasks[t].systems) :
              /\ (Len(tasks[t].systems) = 1 =>
                     written # MissingKeys(market_db, tasks[t].systems)
                     \/ written = {})
              /\ market_db' =
                    [k \in DOMAIN market_db |->
                        IF \E w \in written : k = SnapshotKey(w[1], w[2])
                        THEN Snapshot(k[1], k[2]) ELSE market_db[k]]
              /\ station_db' =
                    [n \in DOMAIN station_db |->
                        IF \E w \in written : w[1] = n
                        THEN [names |-> [j \in DOMAIN StationsOf(n) |->
                                            StationsOf(n)[j].name]]
                        ELSE station_db[n]]
        /\ tasks' = [tasks EXCEPT ![t] =
                        [@ EXCEPT !.state = "FAILURE",
                                  !.item = [i \in DOMAIN @ |->
                                               [phase |-> "failed", st |-> << >>]]]]
        /\ UNCHANGED <<requests, feed>>
        /\ UNCHANGED <<storeVars, toolVars, status>>

ScanInit ==
    /\ market_db = [k \in MarketKeys |-> Absent]
    /\ station_db = [n \in SystemNames |-> Absent]
    /\ requests = << >>
    /\ tasks = << >>
    /\ feed = FeedIdle
    /\ status = [request_id |-> 0, result |-> [ok |-> FALSE, error |-> "none"]]

----------------------------------------------------------------------------
(* Filter-and-rank engine: src/project/main.py *)

\* db.commodity: the readable names that have an entry, and the entry's name
CommodityTable ==
    [n \in {"Gold", "Silver"} |-> IF n = "Gold" THEN "gold" ELSE "silver"]

\* _translate_commodity(readable): the name as given when there is no entry
_translate_commodity(readable) ==
    IF readable \in DOMAIN CommodityTable THEN CommodityTable[readable]
    ELSE readable

\* a dict is the sequence of its items [name, quantity], in insertion order
Keys(d) == {d[i].name : i \in DOMAIN d}

\* {_translate_commodity(k): v for (k, v) in cargo.items()}: a key met again
\* keeps its place and takes the later value
RECURSIVE TranslateCargo(_)
TranslateCargo(cargo) ==
    IF cargo = << >> THEN << >>
    ELSE LET done == TranslateCargo(SubSeq(cargo, 1, Len(cargo) - 1))
             item == [name |-> _translate_commodity(cargo[Len(cargo)].name),
                      quantity |-> cargo[Len(cargo)].quantity]
         IN  IF item.name \in Keys(done)
             THEN [i \in DOMAIN done |->
                      IF done[i].name = item.name THEN item ELSE done[i]]
             ELSE Append(done, item)

\* by_name = {c["name"]: c for c in market_commodities}: the last line of
\* that name
ByName(commodities, name) ==
    commodities[CHOOSE i \in DOMAIN commodities :
                   /\ commodities[i].name = name
                   /\ \A j \in DOMAIN commodities :
                         commodities[j].name = name => j <= i]

InMarket(commodities, name) ==
    \E i \in DOMAIN commodities : commodities[i].name = name

\* the key the two sorts of the ranker use
KeyOf(x, field) == IF field = "sellPrice" THEN x.sellPrice ELSE x.sale.total

\* sorted(seq, key=..., reverse=True), also heapq.nlargest: equal keys keep
\* the order of the input
InsertDesc(sorted, x, field) ==
    LET n == Cardinality({i \in DOMAIN sorted :
                             KeyOf(sorted[i], field) >= KeyOf(x, field)})
    IN  SubSeq(sorted, 1, n) \o <<x>> \o SubSeq(sorted, n + 1, Len(sorted))

RECURSIVE SortedDesc(_, _)
SortedDesc(seq, field) ==
    IF seq = << >> THEN << >>
    ELSE InsertDesc(SortedDesc(SubSeq(seq, 1, Len(seq) - 1), field),
                    seq[Len(seq)], field)

RECURSIVE SumRevenue(_)
SumRevenue(matches) ==
    IF matches = << >> THEN 0
    ELSE matches[1].revenue + SumRevenue(Tail(matches))

\* the manifest items found in the market: everything but the lookup
MatchesAll(cargo, commodities) ==
    [i \in DOMAIN cargo |->
        [name |-> cargo[i].name, sellPrice |-> 0, demand |-> 0,
         quantity |-> cargo[i].quantity, revenue |-> 0]]

Matches(cargo, commodities) ==
    LET found == SelectSeq(cargo, LAMBDA item : InMarket(commodities, item.name))
    IN  [i \in DOMAIN found |->
            [name |-> found[i].name,
             sellPrice |-> ByName(commodities, found[i].name).sellPrice,
             demand |-> ByName(commodities, found[i].name).demand,
             quantity |-> found[i].quantity,
             revenue |-> ByName(commodities, found[i].name).sellPrice
                            * found[i].quantity]]

\* hypothetical_sale(cargo, market)
hypothetical_sale(cargo, mkt) ==
    LET matches == Matches(cargo, mkt.commodities)
        absent == SelectSeq(cargo, LAMBDA item :
                               ~InMarket(mkt.commodities, item.name))
    IN  [total |-> SumRevenue(matches),
         matched |-> SortedDesc(matches, "sellPrice"),
         missing |-> [i \in DOMAIN absent |-> absent[i].name]]

\* the instant of the query, and time_since(timestr): now minus the instant
\* the string denotes, in seconds
RankNow == 100
time_since(update_time) == RankNow - update_time

\* db.station: the stations the dump has described
NoStation == [type |-> "NO DATA", sc_distance |-> "NO DATA"]
RankStations ==
    {[system |-> "Sol", station |-> "Galileo",
      type |-> "Ocellus Starport", sc_distance |-> "505"],
     [system |-> "Sol", station |-> "K7Q-BQL",
      type |-> "Fleet Carrier", sc_distance |-> "2000"],
     [system |-> "Alpha Centauri", station |-> "Hutton Orbital",
      type |-> "Outpost", sc_distance |-> "6784404"]}

\* db.station.find_one({"system": ..., "station": ...})
HasStation(system, station) ==
    \E x \in RankStations : x.system = system /\ x.station = station
station_find_one(system, station) ==
    IF HasStation(system, station)
    THEN LET x == CHOOSE x \in RankStations :
                     x.system = system /\ x.station = station
         IN  [type |-> x.type, sc_distance |-> x.sc_distance]
    ELSE NoStation

\* filter_market(market, desired, ...): TRUE when the market is returned,
\* FALSE when None is
filter_market_any_age(mkt, desired, args) ==
    /\ \E i \in DOMAIN mkt.commodities :
          /\ mkt.commodities[i].name \in desired
          /\ mkt.commodities[i].sellPrice >= args.min_price
          /\ mkt.commodities[i].demand >= args.min_demand
    /\ mkt.update_time # NoTime
    /\ args.disallowed_types # {} =>
          /\ HasStation(mkt.system, mkt.station)
          /\ station_find_one(mkt.system, mkt.station).type
                \notin args.disallowed_types

filter_market(mkt, desired, args) ==
    /\ \E i \in DOMAIN mkt.commodities :
          /\ mkt.commodities[i].name \in desired
          /\ mkt.commodities[i].sellPrice >= args.min_price
          /\ mkt.commodities[i].demand >= args.min_demand
    /\ mkt.update_time # NoTime
    /\ time_since(mkt.update_time) < args.max_update_seconds
    /\ args.disallowed_types # {} =>
          /\ HasStation(mkt.system, mkt.station)
          /\ station_find_one(mkt.system, mkt.station).type
                \notin args.disallowed_types

\* filter_markets(markets, desired, **kwargs)
filter_markets(markets, desired, args) ==
    SelectSeq(markets, LAMBDA m : filter_market(m, desired, args))

\* db.mkt.find_one({"system": ..., "station": ...}): the first such
\* document of the collection
market_find_one(store, system, station) ==
    store[CHOOSE i \in DOMAIN store :
             /\ store[i].system = system /\ store[i].station = station
             /\ \A j \in DOMAIN store :
                   (store[j].system = system /\ store[j].station = station)
                      => i <= j]

SystemOf(systems, name) ==
    systems[CHOOSE i \in DOMAIN systems : systems[i].name = name]

\* _format_market(systems, market)
_format_market(store, systems, mkt) ==
    LET market_data == market_find_one(store, mkt.system, mkt.station)
        station_data == station_find_one(mkt.system, mkt.station)
    IN  [system |-> SystemOf(systems, mkt.system).name,
         jump_distance |-> SystemOf(systems, mkt.system).distance,
         station |-> market_data.station,
         sc_distance |-> station_data.sc_distance,
         type |-> station_data.type,
         updated |-> time_since(market_data.update_time),
         source |-> market_data.source]

\* cytoolz.topk(k, seq, key): heapq.nlargest
get_topk_unsorted(k, seq) == SubSeq(seq, 1, IF k < Len(seq) THEN k ELSE Len(seq))

get_topk(k, seq) ==
    SubSeq(SortedDesc(seq, "total"), 1, IF k < Len(seq) THEN k ELSE Len(seq))

\* best_sell_stations, from filter_markets on: the markets that were read
\* are filtered, priced and ranked
rank_markets(store, systems, cargo, markets, args) ==
    LET filtered == filter_markets(markets, Keys(cargo), args)
        pre_sort == [i \in DOMAIN filtered |->
                        [sale |-> hypothetical_sale(cargo, filtered[i]),
                         market |-> _format_market(store, systems, filtered[i])]]
    IN  get_topk(args.topk, pre_sort)

\* values as MongoDB compares them: a string and a document are never equal
BsonString(s) == [bson |-> "string", value |-> s]
BsonDocument(d) == [bson |-> "document", value |-> d.name]

\* db.mkt.find({"system": {"$in": system_batch}}) over the batches of
\* partition_all(100, systems): the batches hold the system documents
find_in(store, systems) ==
    SelectSeq(store, LAMBDA doc :
        \E i \in DOMAIN systems :
            BsonString(doc.system) = BsonDocument(systems[i]))

\* best_sell_stations(system, cargo, radius, ...)
best_sell_stations(store, system, cargo, radius, args) ==
    LET systems == systems_in_sphere_raw(system, radius)
    IN  rank_markets(store, systems, TranslateCargo(cargo),
                     find_in(store, systems), args)

\* the market documents the queries run over
StationA ==
    [system |-> "Sol", station |-> "Galileo", update_time |-> 90,
     source |-> "eddn",
     commodities |-> << [name |-> "gold", sellPrice |-> 9000, demand |-> 50] >>]
StationB ==
    [system |-> "Alpha Centauri", station |-> "Hutton Orbital",
     update_time |-> 90, source |-> "eddn",
     commodities |-> << [name |-> "gold", sellPrice |-> 9500, demand |-> 5] >>]
StationC ==
    [system |-> "Barnard's Star", station |-> "Miller Depot",
     update_time |-> 50, source |-> "edsm-dump",
     commodities |-> << [name |-> "silver", sellPrice |-> 100, demand |-> 0],
                        [name |-> "gold", sellPrice |-> 9000, demand |-> 50],
                        [name |-> "Painite", sellPrice |-> 0, demand |-> 20] >>]
Carrier ==
    [system |-> "Sol", station |-> "K7Q-BQL", update_time |-> RankNow,
     source |-> "eddn",
     commodities |-> << [name |-> "gold", sellPrice |-> 9900, demand |-> 80] >>]
Unpriced ==
    [system |-> "Sol", station |-> "Daedalus", update_time |-> NoTime,
     source |-> "edsm-dump", commodities |-> << >>]
RankDocs == {StationA, StationB, StationC, Carrier, Unpriced}

\* the collection in its natural order: up to MaxRankDocs documents
RankStores ==
    {store \in UNION {[1..n -> RankDocs] : n \in 0..MaxRankDocs} :
        \A i, j \in DOMAIN store : i # j => store[i] # store[j]}

Manifests ==
    {<< [name |-> "Gold", quantity |-> 10] >>,
     << [name |-> "Silver", quantity |-> 2], [name |-> "Gold", quantity |-> 10] >>,
     << [name |-> "Painite", quantity |-> 5], [name |-> "Gold", quantity |-> 1] >>}

RankArgs ==
    [min_price : {0, 1, 9200}, min_demand : {0, 10},
     max_update_seconds : {0, 20, 86400}, topk : {0, 1, 20},
     disallowed_types : {{}, {"Fleet Carrier", "Odyssey Settlement"}}]

RankRadius == 30

NoArgs ==
    [min_price |-> 1, min_demand |-> 1, max_update_seconds |-> 86400,
     topk |-> 20, disallowed_types |-> {}]

RankIdle ==
    [pc |-> "idle", store |-> << >>, cargo |-> << >>, args |-> NoArgs,
     out |-> << >>, previous |-> << >>, raised |-> "none"]

\* POST /sales arrives: the collection, the manifest and the filters of
\* the query
RankLoad ==
    /\ rank.pc = "idle"
    /\ \E store \in RankStores, cargo \in Manifests, args \in RankArgs :
          rank' = [RankIdle EXCEPT !.pc = "loaded", !.store = store,
                                   !.cargo = cargo, !.args = args]
    /\ UNCHANGED <<storeVars, scanVars, planner, fetch, memo, keyspace>>

\* best_sell_stations(system, cargo, ...) answers the query
SalesQuery ==
    /\ rank.pc = "loaded"
    /\ rank' = [rank EXCEPT !.pc = "answered",
                            !.out = best_sell_stations(rank.store, "Sol",
                                        rank.cargo, RankRadius, rank.args)]
    /\ UNCHANGED <<storeVars, scanVars, planner, fetch, memo, keyspace>>

\* hypothetical_sale(cargo, market) for every document of the collection,
\* with the manifest as given or as translated
SaleQuote ==
    /\ rank.pc = "loaded"
    /\ \E cargo \in {rank.cargo, TranslateCargo(rank.cargo)} :
          rank' = [rank EXCEPT
                     !.pc = "quoted",
                     !.out = [i \in DOMAIN rank.store |->
                                 [cargo |-> cargo, market |-> rank.store[i],
                                  sale |-> hypothetical_sale(cargo,
                                                             rank.store[i])]]]
    /\ UNCHANGED <<storeVars, scanVars, planner, fetch, memo, keyspace>>

\* the stages after the read, over every document of the collection
RankMarketsMoving ==
    /\ rank.pc \in {"loaded", "ranked"}
    /\ rank' = [rank EXCEPT
                  !.pc = IF rank.pc = "loaded" THEN "ranked" ELSE "reranked",
                  !.previous = rank.out,
                  !.cargo = TranslateCargo(rank.cargo),
                  !.out = rank_markets(rank.store,
                              systems_in_sphere_raw("Sol", RankRadius),
                              TranslateCargo(rank.cargo), rank.store,
                              rank.args)]
    /\ UNCHANGED <<storeVars, scanVars, planner, fetch, memo, keyspace>>

RankMarkets ==
    /\ rank.pc \in {"loaded", "ranked"}
    /\ rank' = [rank EXCEPT
                  !.pc = IF rank.pc = "loaded" THEN "ranked" ELSE "reranked",
                  !.previous = rank.out,
                  !.out = rank_markets(rank.store,
                              systems_in_sphere_raw("Sol", RankRadius),
                              TranslateCargo(rank.cargo), rank.store,
                              rank.args)]
    /\ UNCHANGED <<storeVars, scanVars, planner, fetch, memo, keyspace>>

----------------------------------------------------------------------------
(* The ranker of the listener service:
   src/elite-sell/listener/project/main.py *)

\* for system in systems: markets.extend(db.market.find({"system":
\* system["name"]})): the documents system by system
RECURSIVE listener_find(_, _)
listener_find(store, systems) ==
    IF systems = << >> THEN << >>
    ELSE SelectSeq(store, LAMBDA doc : doc.system = systems[1].name)
            \o listener_find(store, Tail(systems))

\* db.commodity.find_one({"readable": k})["name"] for k in
\* desired_commodities: subscripting None raises TypeError
DesiredRaises(desired_commodities) ==
    \E k \in desired_commodities : k \notin DOMAIN CommodityTable

\* filter_markets(markets, desired_commodities, ...): nothing is looked up
\* when there are no markets
listener_filter_raises(markets, desired_commodities) ==
    markets # << >> /\ DesiredRaises(desired_commodities)

listener_filter_markets(markets, desired_commodities, args) ==
    LET desired == {CommodityTable[k] :
                       k \in desired_commodities \cap DOMAIN CommodityTable}
    IN  SelectSeq(markets, LAMBDA m :
            /\ \E i \in DOMAIN m.commodities :
                  /\ m.commodities[i].name \in desired
                  /\ m.commodities[i].sellPrice >= args.min_price
                  /\ m.commodities[i].demand >= args.min_demand
            /\ m.update_time # NoTime
            /\ time_since(m.update_time) < args.max_update_seconds)

\* hypothetical_sale(commodities, market) of the listener service
listener_hypothetical_sale(cargo, mkt) ==
    LET found == SelectSeq(cargo, LAMBDA item :
                              InMarket(mkt.commodities, item.name))
        absent == SelectSeq(cargo, LAMBDA item :
                               ~InMarket(mkt.commodities, item.name))
        matches == [i \in DOMAIN found |->
                       [name |-> found[i].name,
                        sellPrice |-> ByName(mkt.commodities,
                                             found[i].name).sellPrice,
                        revenue |-> ByName(mkt.commodities,
                                           found[i].name).sellPrice
                                       * found[i].quantity]]
    IN  [total |-> SumRevenue(matches), matched |-> matches,
         missing |-> [i \in DOMAIN absent |-> absent[i].name]]

\* best_sell_stations(system, cargo, ...) of the listener service, when
\* filter_markets returns
listener_best_sell_stations(store, system, cargo, radius, args) ==
    LET markets == listener_find(store, systems_in_sphere_raw(system, radius))
        filtered == listener_filter_markets(markets, Keys(cargo), args)
        pre_sort == [i \in DOMAIN filtered |->
                        [sale |-> listener_hypothetical_sale(cargo, filtered[i]),
                         market |-> station_find_one(filtered[i].system,
                                                     filtered[i].station),
                         updated |-> filtered[i].update_time]]
    IN  get_topk(args.topk, pre_sort)

\* best_sell_stations(system, cargo, ...) of the listener service is called
ListenerSalesQuery ==
    /\ rank.pc = "loaded"
    /\ LET markets == listener_find(rank.store,
                          systems_in_sphere_raw("Sol", RankRadius))
       IN  IF listener_filter_raises(markets, Keys(rank.cargo))
           THEN rank' = [rank EXCEPT !.pc = "listened",
                                     !.raised = "TypeError"]
           ELSE rank' = [rank EXCEPT
                           !.pc = "listened",
                           !.out = listener_best_sell_stations(rank.store,
                                       "Sol", rank.cargo, RankRadius,
                                       rank.args)]
    /\ UNCHANGED <<storeVars, scanVars, planner, fetch, memo, keyspace>>

----------------------------------------------------------------------------
(* The ranker over the cached snapshots: src/elite-sell/market.py *)

\* str.lower() on the commodity names of the model
Lower(name) ==
    CASE name = "Gold" -> "gold"
      [] name = "Silver" -> "silver"
      [] name = "Painite" -> "painite"
      [] OTHER -> name

\* filter_sell_commodity(name, min_demand, min_price)(market): the lines of
\* that name, whatever the case, that meet both thresholds
SellLines(name, commodities, args) ==
    SelectSeq(commodities, LAMBDA c :
        /\ Lower(c.name) = Lower(name)
        /\ c.demand >= args.min_demand
        /\ c.sellPrice >= args.min_price)

\* multi_sell_filter(...)(market): for each name of the manifest the first
\* such line, the names without one left out
RECURSIVE multi_sell_filter(_, _, _)
multi_sell_filter(cargo, commodities, args) ==
    IF cargo = << >> THEN << >>
    ELSE LET lines == SellLines(cargo[1].name, commodities, args)
         IN  (IF lines = << >> THEN << >> ELSE <<lines[1]>>)
                \o multi_sell_filter(Tail(cargo), commodities, args)

\* for system_name in system_names: for station_name in the cached station
\* list: the cached market, when there is one
RECURSIVE cached_markets(_, _)
cached_markets(store, systems) ==
    IF systems = << >> THEN << >>
    ELSE SelectSeq(store, LAMBDA doc : doc.system = systems[1].name)
            \o cached_markets(store, Tail(systems))

\* digest_relevant_markets_near(filter_markets(markets, sell_filter)): the
\* markets with a relevant line, each reduced to its relevant lines
digested_markets(markets, systems, cargo, args) ==
    LET kept == SelectSeq(markets, LAMBDA m :
                    multi_sell_filter(cargo, m.commodities, args) # << >>)
    IN  [i \in DOMAIN kept |->
            [system |-> kept[i].system,
             jump_distance |-> SystemOf(systems, kept[i].system).distance,
             station |-> kept[i].station,
             relevant |-> multi_sell_filter(cargo, kept[i].commodities, args)]]

\* hypothetical_sale(commodities, market): cascading_lookup finds "relevant"
\* first, so the lines priced are the relevant ones
cached_hypothetical_sale(cargo, digest) ==
    LET found == SelectSeq(cargo, LAMBDA item :
                              InMarket(digest.relevant, item.name))
        absent == SelectSeq(cargo, LAMBDA item :
                               ~InMarket(digest.relevant, item.name))
        matches == [i \in DOMAIN found |->
                       [name |-> found[i].name,
                        sellPrice |-> ByName(digest.relevant,
                                             found[i].name).sellPrice,
                        revenue |-> ByName(digest.relevant,
                                           found[i].name).sellPrice
                                       * found[i].quantity]]
    IN  [total |-> SumRevenue(matches), matched |-> matches,
         missing |-> [i \in DOMAIN absent |-> absent[i].name]]

\* best_sell_stations(system_names, cargo, min_price, min_demand, topk)
cached_best_sell_stations(store, systems, cargo, args) ==
    LET digested == digested_markets(cached_markets(store, systems), systems,
                                     cargo, args)
        sales == [i \in DOMAIN digested |->
                     [sale |-> cached_hypothetical_sale(cargo, digested[i]),
                      market |-> digested[i]]]
    IN  get_topk(args.topk, sales)

\* the sale query over the cached snapshots of the systems of a scan
CachedSalesQuery ==
    /\ rank.pc = "loaded"
    /\ rank' = [rank EXCEPT
                  !.pc = "cached",
                  !.out = cached_best_sell_stations(rank.store,
                              systems_in_sphere_raw("Sol", RankRadius),
                              rank.cargo, rank.args)]
    /\ UNCHANGED <<storeVars, scanVars, planner, fetch, memo, keyspace>>

----------------------------------------------------------------------------
(* Memoized requests: DB.memoize, and _get = cache.memoize()(_get_raw) *)

\* the requests that are memoized, what the provider may answer, and how a
\* call of the wrapped function ends
MemoKeys == {"stations?systemName=Sol"}
MemoValues == {"answer 1", "answer 2"}
MemoOutcomes ==
    {[ok |-> TRUE, value |-> v] : v \in MemoValues}
       \cup {[ok |-> FALSE, value |-> "HTTPError"]}

MemoIdle ==
    [cache |-> [k \in MemoKeys |-> Absent], key |-> "", requested |-> FALSE,
     raised |-> FALSE, result |-> Absent]

\* a wrapper that stores whatever the call ended with
memoize_storing_errors(cache, key, outcome) ==
    IF cache[key] # Absent
    THEN [cache |-> cache, key |-> key, requested |-> FALSE,
          raised |-> FALSE, result |-> cache[key]]
    ELSE [cache |-> [cache EXCEPT ![key] = [json |-> outcome.value]],
          key |-> key, requested |-> TRUE, raised |-> ~outcome.ok,
          result |-> IF outcome.ok THEN [json |-> outcome.value] ELSE Absent]

\* _wrapped(*args, **kwargs): the stored value when the key exists;
\* otherwise func is called, and its value is set and returned unless it
\* raised
memoize(cache, key, outcome) ==
    IF cache[key] # Absent
    THEN [cache |-> cache, key |-> key, requested |-> FALSE,
          raised |-> FALSE, result |-> cache[key]]
    ELSE IF outcome.ok
    THEN [cache |-> [cache EXCEPT ![key] = [json |-> outcome.value]],
          key |-> key, requested |-> TRUE, raised |-> FALSE,
          result |-> [json |-> outcome.value]]
    ELSE [cache |-> cache, key |-> key, requested |-> TRUE, raised |-> TRUE,
          result |-> Absent]

\* one call of a memoized request
MemoCall ==
    /\ \E key \in MemoKeys, outcome \in MemoOutcomes :
          memo' = memoize(memo.cache, key, outcome)
    /\ UNCHANGED <<storeVars, scanVars, planner, fetch, rank, keyspace>>

----------------------------------------------------------------------------
(* The "markets" namespace, whatever the provider calls its systems and
   stations *)

\* names the provider may give: nothing keeps a system from being called
\* "dirty", or a station from bearing the name of a system
KeySystems == {"dirty", "Sol"}
KeyStations == {"Sol", "Galileo"}

\* the stored keys these names lead to
KeyspaceKeys ==
    {DirtyKey(n) : n \in KeySystems} \cup
    {SnapshotKey(n, st) : n \in KeySystems, st \in KeyStations}

KeyIdle ==
    [db |-> [k \in KeyspaceKeys |-> Absent], op |-> "none", system |-> "",
     station |-> "", flag |-> None]

\* _market(station) stores the market it has fetched
KeyStore ==
    /\ \E n \in KeySystems, st \in KeyStations :
          /\ ~db_exists(keyspace.db, <<n, st>>)
          /\ keyspace' = [keyspace EXCEPT
                            !.db = db_set(@, <<n, st>>, Snapshot(n, st)),
                            !.op = "store", !.system = n, !.station = st]
    /\ UNCHANGED <<storeVars, scanVars, planner, fetch, rank, memo>>

\* the feed handler, for a market that exists: invalidate(system, station)
KeyInvalidate ==
    /\ \E n \in KeySystems, st \in KeyStations :
          /\ db_exists(keyspace.db, <<n, st>>)
          /\ keyspace' = [keyspace EXCEPT
                            !.db = db_set(db_invalidate(@, <<n, st>>),
                                          <<"dirty", n>>, True),
                            !.op = "invalidate", !.system = n, !.station = st]
    /\ UNCHANGED <<storeVars, scanVars, planner, fetch, rank, memo>>

\* _dirty(system) of request_near and request_status
KeyDirty ==
    /\ \E n \in KeySystems :
          keyspace' = [keyspace EXCEPT
                         !.op = "dirty", !.system = n, !.station = "",
                         !.flag = _dirty(keyspace.db, n)]
    /\ UNCHANGED <<storeVars, scanVars, planner, fetch, rank, memo>>

ToolInit ==
    /\ planner = PlannerIdle
    /\ fetch = FetchIdle
    /\ rank = RankIdle
    /\ memo = MemoIdle
    /\ keyspace = KeyIdle

Init == StoreInit /\ ScanInit /\ ToolInit

StoreNext == FeedWrite \/ DumpWrite

StoreSpec == Init /\ [][StoreNext]_vars

SystemStartStep ==
    \E t \in DOMAIN tasks : \E i \in DOMAIN tasks[t].item : SystemStart(t, i)
MarketCheckStep ==
    \E t \in DOMAIN tasks : \E i \in DOMAIN tasks[t].item :
        \E j \in DOMAIN tasks[t].item[i].st : MarketCheck(t, i, j)
MarketFetchStep ==
    \E t \in DOMAIN tasks : \E i \in DOMAIN tasks[t].item :
        \E j \in DOMAIN tasks[t].item[i].st : MarketFetch(t, i, j)
MarketGetStep ==
    \E t \in DOMAIN tasks : \E i \in DOMAIN tasks[t].item :
        \E j \in DOMAIN tasks[t].item[i].st : MarketGet(t, i, j)
CancelStationsStep ==
    \E t \in DOMAIN tasks : \E i \in DOMAIN tasks[t].item : CancelStations(t, i)
SystemFinishStep ==
    \E t \in DOMAIN tasks : \E i \in DOMAIN tasks[t].item : SystemFinish(t, i)
CancelSystemsStep == \E t \in DOMAIN tasks : CancelSystems(t)
TaskFinishStep == \E t \in DOMAIN tasks : TaskFinish(t)

Next ==
    \/ StartScan
    \/ FeedRecv
    \/ FeedDelete
    \/ FeedSetDirty
    \/ SystemStartStep
    \/ MarketCheckStep
    \/ MarketFetchStep
    \/ MarketGetStep
    \/ CancelStationsStep
    \/ SystemFinishStep
    \/ CancelSystemsStep
    \/ TaskFinishStep

Spec == Init /\ [][Next]_vars

PlanNext ==
    \/ PlanScan
    \/ PopulateTask
    \/ FeedRecv
    \/ FeedDelete
    \/ FeedSetDirty
    \/ RequestStatus

PlanSpec == Init /\ [][PlanNext]_vars

FailNext ==
    \/ LargeScan
    \/ PopulateTask
    \/ PopulateTaskFails
    \/ FeedRecv
    \/ FeedDelete
    \/ FeedSetDirty
    \/ RequestStatus

FailSpec == Init /\ [][FailNext]_vars

\* scans and population runs beside a consumer whose input may be malformed
\* and whose transport may fail
ConsumerNext ==
    \/ PlanScan
    \/ PopulateTask
    \/ FeedRecv
    \/ FeedDelete
    \/ FeedSetDirty
    \/ FeedMalformed
    \/ FeedTransportError
    \/ FeedReconnect

ConsumerSpec == Init /\ [][ConsumerNext]_vars

\* POST /scan for the origin system, again before the tasks of the scan
\* before have finished
OverlapScan ==
    /\ Len(requests) < MaxOverlapScans
    /\ \E max_radius \in FetchRadii :
          request_near("Sol", DefaultInitialRadius, max_radius)
    /\ UNCHANGED <<market_db, station_db, feed>>
    /\ UNCHANGED <<storeVars, toolVars, status>>

\* population tasks of overlapping scans side by side, with no feed event
OverlapNext ==
    \/ OverlapScan
    \/ SystemStartStep
    \/ MarketCheckStep
    \/ MarketFetchStep
    \/ MarketGetStep
    \/ CancelStationsStep
    \/ SystemFinishStep
    \/ TaskFinishStep

OverlapSpec == Init /\ [][OverlapNext]_vars

\* the population tasks of overlapping scans and the memoized requests
CacheNext ==
    \/ OverlapNext
    \/ MemoCall

CacheSpec == Init /\ [][CacheNext]_vars

KeyNext ==
    \/ KeyStore
    \/ KeyInvalidate
    \/ KeyDirty

KeySpec == Init /\ [][KeyNext]_vars

\* POST /scan for the origin system alone
FetchScan ==
    /\ Len(requests) < MaxFetchScans
    /\ \E max_radius \in FetchRadii :
          request_near("Sol", DefaultInitialRadius, max_radius)
    /\ UNCHANGED <<market_db, station_db, feed>>
    /\ UNCHANGED <<storeVars, toolVars, status>>

FetchCallStep ==
    \E t \in DOMAIN tasks : \E i \in DOMAIN tasks[t].item :
        \E j \in DOMAIN tasks[t].item[i].st : FetchCall(t, i, j)

\* the populator with every market fetch taken attempt by attempt (a batch
\* of one system leaves populate_markets no queued system to cancel)
FetchNext ==
    \/ FetchScan
    \/ SystemStartStep
    \/ MarketCheckStep
    \/ FetchCallStep
    \/ FetchSend
    \/ FetchReceive
    \/ FetchWake
    \/ MarketStore
    \/ MarketRaise
    \/ MarketGetStep
    \/ CancelStationsStep
    \/ SystemFinishStep
    \/ TaskFinishStep

FetchSpec == Init /\ [][FetchNext]_vars

\* every request is answered or fails, and every sleep ends
FetchLiveSpec ==
    FetchSpec /\ WF_vars(FetchSend) /\ WF_vars(FetchReceive) /\ WF_vars(FetchWake)

RankNext ==
    \/ RankLoad
    \/ SaleQuote
    \/ SalesQuery
    \/ RankMarkets
    \/ ListenerSalesQuery
    \/ CachedSalesQuery

RankSpec == Init /\ [][RankNext]_vars

ShellNext ==
    \/ ShellsStart
    \/ ShellsTake
    \/ WhichBin

ShellSpec == Init /\ [][ShellNext]_vars

\* the consumer keeps pulling: the generator never blocks
ShellLiveSpec == ShellSpec /\ WF_vars(ShellsTake)

----------------------------------------------------------------------------
(* Claims about the MongoDB market collection *)

DocsOf(coll, sys, sta) ==
    {i \in DOMAIN coll : coll[i].system = sys /\ coll[i].station = sta}

FeedDocsOf(coll, sys, sta) ==
    {i \in DocsOf(coll, sys, sta) : coll[i].source = "eddn"}

\* C1: once a feed-sourced snapshot is stored for a key, a bulk-dump write
\* for that key whose timestamp is not strictly newer than the stored feed
\* snapshot's never changes (or removes) that feed snapshot.
C1_DumpKeepsFresherFeed ==
    [][ lastWrite'.kind = "dump" =>
          \A i \in FeedDocsOf(market, lastWrite'.system, lastWrite'.station) :
              ~(lastWrite'.update_time > market[i].update_time) =>
                  /\ i \in DOMAIN market'
                  /\ market'[i] = market[i] ]_vars

\* a dump write has just run for a key that holds a feed snapshot at least
\* as new as the dump's
C1_Witness ==
    /\ lastWrite.kind = "dump"
    /\ \E i \in FeedDocsOf(market, lastWrite.system, lastWrite.station) :
          market[i].update_time >= lastWrite.update_time

\* C2: the market store holds at most one snapshot per (system, station)
\* key, whatever the interleaving of feed and bulk-dump writes.
C2_OneSnapshotPerKey ==
    \A k \in StoreKeys : Cardinality(DocsOf(market, k[1], k[2])) <= 1

\* C3: a bulk-dump Put for a key that holds feed data at least as fresh is
\* rejected and leaves the store unchanged (no snapshot added, removed or
\* modified).
C3_RejectedPutLeavesStore ==
    [][ ( /\ lastWrite'.kind = "dump"
          /\ \E i \in FeedDocsOf(market, lastWrite'.system,
                                 lastWrite'.station) :
                market[i].update_time >= lastWrite'.update_time )
        => market' = market ]_vars

----------------------------------------------------------------------------
(* Claims about the freshness cache, the scans and their status *)

Range(seq) == {seq[i] : i \in DOMAIN seq}

\* every eligible station of the system has its snapshot in the cache
Populated(db, system_name) ==
    \A j \in DOMAIN EligibleStations(system_name) :
        db_exists(db, <<system_name, EligibleStations(system_name)[j].name>>)

\* the step is the feed handler's
FeedStep == feed' # feed

\* C4: a feed event changes the cache only when the key's snapshot is
\* cached (Clean): then the snapshot is deleted and the system's dirty flag
\* set; on a key without snapshot (Unknown, or Dirty already) the handler
\* returns at once, nothing is deleted and no dirty flag is written.
C4_MarkDirtyOnlyWhenClean ==
    [][ FeedStep =>
          /\ (feed.pc = "recv" /\ feed'.handled # "ignored") =>
                /\ market_db' = market_db
                /\ feed'.pc = "delete" <=>
                      db_exists(market_db, <<feed'.system, feed'.station>>)
          /\ feed.pc = "delete" =>
                /\ ~db_exists(market_db', <<feed.system, feed.station>>)
                /\ \A k \in MarketKeys \ {SnapshotKey(feed.system, feed.station)} :
                      market_db'[k] = market_db[k]
          /\ feed.pc = "flag" =>
                /\ _dirty(market_db', feed.system) = True
                /\ \A k \in MarketKeys \ {DirtyKey(feed.system)} :
                      market_db'[k] = market_db[k] ]_vars

\* a feed event has just been skipped for a key of an invalidated system
C4_Witness ==
    /\ feed.pc = "recv"
    /\ feed.handled = "skip"
    /\ ~db_exists(market_db, <<feed.system, feed.station>>)
    /\ _dirty(market_db, feed.system) = True

\* C5: once a population task has succeeded, every system of its batch
\* whose eligible stations all have their snapshot stored has its dirty
\* aggregate cleared (flag False, counted Complete).
C5_PopulatedSystemIsClean ==
    \A t \in DOMAIN tasks :
        tasks[t].state = "SUCCESS" =>
            \A i \in DOMAIN tasks[t].systems :
                Populated(market_db, tasks[t].systems[i].name) =>
                    _dirty(market_db, tasks[t].systems[i].name) = False

\* C6: a scan all of whose tasks have succeeded, with no feed event since
\* (the feed handler is idle and every snapshot is still stored), is
\* Complete: request_status counts every system Complete, 100 percent.
\* request_status writes nothing, so a scan that is not Complete in such a
\* state stays so until a later feed event or scan.
C6_SucceededScanIsComplete ==
    \A r \in DOMAIN requests :
        ( /\ Len(requests[r].tasks) > 0
          /\ \A i \in DOMAIN requests[r].tasks :
                tasks[requests[r].tasks[i].task_id].state = "SUCCESS"
          /\ feed.pc = "recv"
          /\ \A i \in DOMAIN requests[r].systems :
                Populated(market_db, requests[r].systems[i].name) )
        => LET st == request_status(market_db, tasks, requests[r])
           IN  /\ st.ok
               /\ st.system_completion["Complete"] = Len(requests[r].systems)
               /\ st.system_completion_percent.num
                     = 100 * st.system_completion_percent.den

\* the systems of the request's dispatched batches
Dispatched(request) ==
    UNION {Range(request.tasks[i].systems) : i \in DOMAIN request.tasks}

\* the step is a request_near that persisted a request
ScanStep == Len(requests') = Len(requests) + 1
NewRequest == requests'[Len(requests')]

\* the step changes what request_status counts from: the persisted
\* requests or a dirty flag
CountsStep ==
    \/ requests' # requests
    \/ \E n \in SystemNames : market_db'[DirtyKey(n)] # market_db[DirtyKey(n)]

\* C7: the feed handler's last step leaves the system's flag Dirty; a scan
\* started while a system of its region is Dirty has that system in a
\* dispatched batch; and request_status counts every Dirty system of a
\* request as Partial, whatever has been populated since.
C7_DirtySystemIsRescanned ==
    [][ /\ (FeedStep /\ feed.pc = "flag") =>
              _dirty(market_db', feed.system) = True
        /\ ScanStep =>
              \A x \in Range(NewRequest.systems) :
                  _dirty(market_db, x.name) = True => x \in Dispatched(NewRequest)
        /\ CountsStep =>
              \A r \in DOMAIN requests' :
                  LET dirty == {i \in DOMAIN requests'[r].systems :
                                   _dirty(market_db', requests'[r].systems[i].name)
                                      = True}
                      st == request_status(market_db', tasks', requests'[r])
                  IN  dirty # {} =>
                         st.ok /\ st.system_completion["Partial"] = Cardinality(dirty)
        /\ status' # status =>
              LET r == requests[status'.request_id]
                  dirty == {i \in DOMAIN r.systems :
                               _dirty(market_db, r.systems[i].name) = True}
              IN  dirty # {} =>
                     /\ status'.result.ok
                     /\ status'.result.system_completion["Partial"]
                           = Cardinality(dirty)
      ]_vars

\* a populated system was invalidated, and a scan holds it in a batch that
\* has not run yet, while an earlier task has succeeded
C7_Witness ==
    /\ _dirty(market_db, "Sol") = True
    /\ ~Populated(market_db, "Sol")
    /\ \E t \in DOMAIN tasks : tasks[t].state = "SUCCESS"
    /\ \E r \in DOMAIN requests : \E i \in DOMAIN requests[r].tasks :
          /\ tasks[requests[r].tasks[i].task_id].state = "PENDING"
          /\ \E x \in Range(requests[r].tasks[i].systems) : x.name = "Sol"
    /\ status.result.ok
    /\ status.result.system_completion["Partial"] = 1

\* the cache as it is, and with the flag of the request's nearest system
\* stored as false
FlagStores(db, request) ==
    IF request.systems = << >> THEN {db}
    ELSE {db, [db EXCEPT ![DirtyKey(request.systems[1].name)] = False]}

\* C8: request_near dispatches exactly the systems of the region whose
\* state is not Complete (dirty flag not False), each in exactly one batch,
\* and enqueues and records exactly one task per batch.
C8_DispatchesExactlyStale ==
    [][ ScanStep =>
          LET r == NewRequest
              need == {x \in Range(r.systems) : _dirty(market_db, x.name) # False}
          IN  /\ Dispatched(r) = need
              /\ \A x \in need :
                    Cardinality({p \in (DOMAIN r.tasks) \X (1..BatchSize) :
                                    /\ p[2] \in DOMAIN r.tasks[p[1]].systems
                                    /\ r.tasks[p[1]].systems[p[2]] = x}) = 1
              /\ Len(tasks') = Len(tasks) + Len(r.tasks)
              /\ \A i \in DOMAIN r.tasks :
                    /\ r.tasks[i].task_id = Len(tasks) + i
                    /\ tasks'[r.tasks[i].task_id].systems = r.tasks[i].systems
                    /\ tasks'[r.tasks[i].task_id].state = "PENDING"
                    /\ r.tasks[i].systems # << >>
              /\ \A t \in DOMAIN tasks : tasks'[t] = tasks[t]
              \* the selection, also with a flag stored as false
              /\ \A db \in FlagStores(market_db, r) :
                    LET batches == TaskSystems(db, r.systems)
                    IN  UNION {Range(batches[i]) : i \in DOMAIN batches}
                           = {x \in Range(r.systems) : _dirty(db, x.name) # False}
      ]_vars

\* a persisted request with more systems than one batch holds
C8_Witness ==
    \E r \in DOMAIN requests :
        /\ Len(requests[r].tasks) = 2
        /\ Len(requests[r].tasks[1].systems) = BatchSize
        /\ Cardinality(Dispatched(requests[r])) = Len(requests[r].systems)

\* C9: every batch of a request holds systems of a single equal-volume
\* shell, and the shell recorded with its task is that shell's index.
C9_BatchIsOneShell ==
    \A r \in DOMAIN requests :
        LET shells == ShellsBelow(requests[r].initial_radius,
                                  requests[r].max_radius)
        IN  \A i \in DOMAIN requests[r].tasks :
                \A x \in Range(requests[r].tasks[i].systems) :
                    _which_bin(x, shells) = requests[r].tasks[i].shell

\* the dirty flag as the three-valued state of a system
State(db, system_name) ==
    IF ~db_exists(db, <<"dirty", system_name>>) THEN "Unknown"
    ELSE IF db[DirtyKey(system_name)] = True THEN "Dirty" ELSE "Clean"

InState(db, request, state) ==
    {i \in DOMAIN request.systems : State(db, request.systems[i].name) = state}

\* the counts and the percentage of a result are those of the cache
CountsByState(res, db, request) ==
    LET compl == res.system_completion
        unknown == Cardinality(InState(db, request, "Unknown"))
        dirty == Cardinality(InState(db, request, "Dirty"))
        clean == Cardinality(InState(db, request, "Clean"))
    IN  /\ compl = [label \in {"Pending", "Partial", "Complete"} |->
                       CASE label = "Pending" -> unknown
                         [] label = "Partial" -> dirty
                         [] OTHER -> clean]
        /\ compl["Pending"] + compl["Partial"] + compl["Complete"]
              = Len(request.systems)
        /\ res.system_completion_percent
              = [num |-> 100 * clean, den |-> Len(request.systems)]

TasksIn(request, state) ==
    {request.tasks[i].task_id : i \in DOMAIN request.tasks} \cap
    {t \in DOMAIN tasks : tasks[t].state = state}

\* C11: the answer of every request_status call is computed from the cache
\* and the task states at the time of the call: a system whose flag a feed
\* event has set since the previous call is counted Partial by this call,
\* the task lists are those of the present task states in whatever order
\* the tasks finished, and a second call on the same request may count
\* fewer systems Pending (or Complete) than the first.
C11_StatusIsLive ==
    [][ status' # status =>
          LET r == requests[status'.request_id]
              res == status'.result
          IN  r.systems # << >> =>
                /\ res.ok
                /\ res.system_completion["Partial"]
                      = Cardinality(InState(market_db, r, "Dirty"))
                /\ res.system_completion["Complete"]
                      = Cardinality(InState(market_db, r, "Clean"))
                /\ \A state \in {"PENDING", "SUCCESS", "FAILURE"} :
                      res.tasks[state] = TasksIn(r, state)
                /\ res.unfinished_shells
                      = TasksIn(r, "PENDING") \cup TasksIn(r, "FAILURE") ]_vars

\* a call has answered Partial for a system invalidated after it was
\* populated, on a request whose second batch finished before its first
C11_Witness ==
    /\ status.result.ok
    /\ status.result.system_completion["Partial"] = 1
    /\ _dirty(market_db, "Sol") = True
    /\ LET r == requests[status.request_id]
       IN  /\ Len(r.tasks) = 2
           /\ tasks[r.tasks[1].task_id].state = "PENDING"
           /\ tasks[r.tasks[2].task_id].state = "SUCCESS"
           /\ status.result.tasks["SUCCESS"] = {r.tasks[2].task_id}

\* the tasks that this step takes from PENDING to the given state
Becomes(state) ==
    {t \in DOMAIN tasks : tasks[t].state = "PENDING" /\ tasks'[t].state = state}

\* C12: a failing population task changes no other task and no request;
\* request_status still answers, with every failed task of the request in
\* its FAILURE list and among the unfinished ones; and a task that succeeds,
\* whatever has failed before, leaves every snapshot of its batch stored.
C12_FailureStaysInTask ==
    [][ /\ \A t \in Becomes("FAILURE") :
              /\ requests' = requests
              /\ \A u \in DOMAIN tasks \ {t} : tasks'[u] = tasks[u]
        /\ \A t \in Becomes("SUCCESS") :
              \A i \in DOMAIN tasks[t].systems :
                  Populated(market_db', tasks[t].systems[i].name)
        /\ status' # status =>
              LET r == requests[status'.request_id]
              IN  r.systems # << >> =>
                    /\ status'.result.ok
                    /\ status'.result.tasks["FAILURE"] = TasksIn(r, "FAILURE")
                    /\ TasksIn(r, "FAILURE") \subseteq
                          status'.result.unfinished_shells ]_vars

\* the second batch's task has failed, the first batch's has succeeded and
\* stored Sol's snapshots, and request_status has answered with the failure
C12_Witness ==
    /\ Len(tasks) >= 2
    /\ tasks[2].state = "FAILURE"
    /\ tasks[1].state = "SUCCESS"
    /\ Populated(market_db, "Sol")
    /\ status.result.ok
    /\ status.result.tasks["FAILURE"] = {2}
    /\ status.result.tasks["SUCCESS"] = {1}
    /\ status.result.unfinished_shells = {2}

\* C13: a persisted request is never changed or removed; only request_near
\* adds tasks, one request at a time, and changes none; and a
\* request_status call writes nothing to the cache, the request store or
\* the task queue.
C13_RequestIsImmutable ==
    [][ /\ \A r \in DOMAIN requests :
              r \in DOMAIN requests' /\ requests'[r] = requests[r]
        /\ Len(tasks') >= Len(tasks)
        /\ Len(tasks') > Len(tasks) => ScanStep
        /\ \A t \in DOMAIN tasks : tasks'[t].systems = tasks[t].systems
        /\ status' # status =>
              /\ market_db' = market_db
              /\ station_db' = station_db
              /\ requests' = requests
              /\ tasks' = tasks ]_vars

\* after a failure, a success, a feed event and a status call the request
\* still holds its two task records and no task has been added
C13_Witness ==
    /\ Len(requests) = 1
    /\ Len(requests[1].tasks) = 2
    /\ Len(tasks) = 2
    /\ tasks[1].state = "SUCCESS"
    /\ tasks[2].state = "FAILURE"
    /\ _dirty(market_db, "Sol") = True
    /\ status.request_id = 1
    /\ status.result.ok
    /\ status.result.tasks["FAILURE"] = {2}

\* C14: every request_status call on a persisted request returns a result
\* with a completion percentage and never raises, also for a request with
\* no systems and for one with nothing populated yet.
C14_StatusNeverRaises ==
    status.request_id \in DOMAIN requests =>
        /\ status.result.ok
        /\ status.result.system_completion_percent.den > 0


\* the volume of a shell, as the difference of the cubes of its bounds
Volume(shell) == shell[2] - shell[1]

\* every shell pulled from the generator, the one that stopped the consumer
\* included
Pulled ==
    IF planner.last = << >> THEN planner.shells
    ELSE Append(planner.shells, planner.last)

\* C15 (as stated): every shell's difference of cubes is r1^3 exactly
C15_EqualVolumeExact ==
    \A i \in DOMAIN Pulled : Volume(Pulled[i]) = Cube(planner.r)

\* C15 (amended): the first shell is (0, r1) with volume r1^3 exactly; the
\* difference of cubes of every later shell is r1^3 up to the rounding of the
\* roots computed so far, an error that can grow with the shell's index
C15_EqualVolumeUpToRounding ==
    \A i \in DOMAIN Pulled :
        /\ i = 1 => Pulled[i] = <<0, Cube(planner.r)>>
        /\ Volume(Pulled[i]) - Cube(planner.r) \in -(i - 1)..(i - 1)

C15_Witness ==
    /\ Len(Pulled) >= 3
    /\ \E i \in DOMAIN Pulled : Volume(Pulled[i]) # Cube(planner.r)

\* C16: a system at distance d is assigned to the one shell i with
\* r_i <= d < r_{i+1}, so a system exactly on the boundary r_{i+1} goes to
\* shell i+1 and not to shell i
C16_HalfOpenShell ==
    planner.bin >= 0 =>
        /\ planner.shells[planner.bin + 1][1] <= Cube(planner.distance)
        /\ Cube(planner.distance) < planner.shells[planner.bin + 1][2]

\* the shells taken are the first shell (0, r1) and its contiguous
\* successors, with strictly increasing lower bounds, all below maxRadius;
\* once the consumer has stopped they cover [0, maxRadius)
ShellsWellFormed ==
    /\ planner.pc # "idle" => planner.shells[1] = <<0, Cube(planner.r)>>
    /\ \A i \in DOMAIN Pulled :
          i > 1 => /\ Pulled[i][1] = Pulled[i - 1][2]
                   /\ Pulled[i][1] > Pulled[i - 1][1]
    /\ \A i \in DOMAIN planner.shells :
          planner.shells[i][1] < Cube(planner.max_radius)
    /\ planner.pc = "done" =>
          /\ planner.last[1] >= Cube(planner.max_radius)
          /\ planner.shells[Len(planner.shells)][2] >= Cube(planner.max_radius)

FetchActive == fetch.pc \in {"send", "wait", "throttled", "pacing"}

C21_BackoffBeforeRetry ==
    (/\ fetch.pc = "send"
     /\ fetch.attempt >= 2
     /\ fetch.response.status_code \in (400..599) \ {429})
        => fetch.slept.num > 0

\* C22: when one station's market fetch has failed, the population of its
\* batch goes on: no other station is left unfetched, the system's
\* population returns its outcome instead of raising, and the task does not
\* fail
C22_StationFailureIsRecorded ==
    [][ \A t \in DOMAIN tasks : \A i \in DOMAIN tasks[t].item :
          (/\ tasks[t].item[i].phase = "running"
           /\ \E k \in DOMAIN tasks[t].item[i].st :
                 tasks[t].item[i].st[k] = "failed")
            => /\ tasks'[t].item[i].phase # "failed"
               /\ tasks'[t].state # "FAILURE"
               /\ tasks'[t].item[i].phase = "running" =>
                     \A k \in DOMAIN tasks'[t].item[i].st :
                         tasks'[t].item[i].st[k] # "cancelled" ]_vars

\* the stations of a disallowed type
Disallowed(name) ==
    {StationsOf(name)[j].name : j \in {k \in DOMAIN StationsOf(name) :
                                          StationsOf(name)[k].type \in disallowed_types}}

\* C23: no market is fetched or stored for a station of a disallowed type,
\* and in a population of a system every station of an allowed type gets its
\* one market fetch or cache hit: none is left out
C23_EveryAllowedStationOnce ==
    /\ \A n \in SystemNames : \A x \in Disallowed(n) :
          ~db_exists(market_db, <<n, x>>)
    /\ \A t \in DOMAIN tasks : \A i \in DOMAIN tasks[t].item :
          tasks[t].item[i].phase = "running" =>
             /\ Len(tasks[t].item[i].st) =
                   Len(StationsOf(tasks[t].systems[i].name))
                      - Cardinality(Disallowed(tasks[t].systems[i].name))
             /\ \A k \in DOMAIN tasks[t].item[i].st :
                   tasks[t].item[i].st[k] # "cancelled"

\* the names of a sequence of records with a name
Names(seq) == {seq[i].name : i \in DOMAIN seq}

\* the sum over a set of names of the market's sell price times the
\* manifest's quantity
RECURSIVE Revenue(_, _, _)
Revenue(names, cargo, commodities) ==
    IF names = {} THEN 0
    ELSE LET n == CHOOSE n \in names : TRUE
             line == commodities[CHOOSE i \in DOMAIN commodities :
                                    commodities[i].name = n]
             item == cargo[CHOOSE i \in DOMAIN cargo : cargo[i].name = n]
         IN  line.sellPrice * item.quantity
                + Revenue(names \ {n}, cargo, commodities)

Resolved(cargo) ==
    {IF cargo[i].name \in DOMAIN CommodityTable
     THEN CommodityTable[cargo[i].name] ELSE cargo[i].name : i \in DOMAIN cargo}

\* the three conditions of the filter, on a document of the collection
Admissible(doc, cargo, args) ==
    /\ \E i \in DOMAIN doc.commodities :
          /\ doc.commodities[i].name \in Resolved(cargo)
          /\ doc.commodities[i].sellPrice >= args.min_price
          /\ doc.commodities[i].demand >= args.min_demand
    /\ doc.update_time # NoTime
    /\ RankNow - doc.update_time < args.max_update_seconds
    /\ args.disallowed_types # {} =>
          ~\E x \in RankStations :
               /\ x.system = doc.system /\ x.station = doc.station
               /\ x.type \in args.disallowed_types

\* the stations of a ranked result
Stations(out) == {<<out[i].market.system, out[i].market.station>> : i \in DOMAIN out}

\* C25: the stations a sale query returns (when topk does not cut the list)
\* are exactly the stations of the snapshots that have a manifest commodity
\* at min_price and min_demand, an age below max_update_seconds and a type
\* outside the excluded set; for Station A (gold 9000, demand 50), Station B
\* (gold 9500, demand 5), manifest Gold: 10 and min_demand 10 that is
\* Station A alone
C25_FilterKeepsExactly ==
    (rank.pc = "answered" /\ rank.args.topk >= Len(rank.store)) =>
        Stations(rank.out) =
            {<<rank.store[i].system, rank.store[i].station>> :
                i \in {j \in DOMAIN rank.store :
                          Admissible(rank.store[j], rank.cargo, rank.args)}}

\* C26: the ranked candidates come by total revenue descending, and two
\* candidates of equal total by ascending jump distance, whatever the order
\* in which the collection gave their snapshots
C26_TiesByJumpDistance ==
    rank.pc = "ranked" =>
        \A i, j \in DOMAIN rank.out :
            i < j =>
                /\ rank.out[i].sale.total >= rank.out[j].sale.total
                /\ rank.out[i].sale.total = rank.out[j].sale.total =>
                      rank.out[i].market.jump_distance
                         <= rank.out[j].market.jump_distance

\* the documents of the collection that pass the filter of the ranked query
Survivors ==
    {i \in DOMAIN rank.store :
        filter_market(rank.store[i], Resolved(rank.cargo), rank.args)}

\* C27: a ranking returns min(topk, n) candidates, n being the number of
\* snapshots that pass the filter, and no snapshot that passed and was left
\* out would sell for strictly more than one that was returned
C27_TopKCut ==
    rank.pc = "ranked" =>
        /\ Len(rank.out) = IF rank.args.topk < Cardinality(Survivors)
                           THEN rank.args.topk ELSE Cardinality(Survivors)
        /\ \A i \in Survivors :
              <<rank.store[i].system, rank.store[i].station>>
                    \notin Stations(rank.out) =>
                 \A j \in DOMAIN rank.out :
                    hypothetical_sale(TranslateCargo(rank.cargo),
                                      rank.store[i]).total
                        <= rank.out[j].sale.total

C27_Witness ==
    /\ rank.pc = "ranked"
    /\ rank.args.topk = 1
    /\ Cardinality(Survivors) >= 2
    /\ Len(rank.out) = 1
    /\ \E i \in Survivors :
          hypothetical_sale(TranslateCargo(rank.cargo), rank.store[i]).total
              < rank.out[1].sale.total

Carries(doc, cargo) ==
    \E i \in DOMAIN doc.commodities : doc.commodities[i].name \in Resolved(cargo)

Unresolved(cargo) == {n \in Keys(cargo) : n \notin DOMAIN CommodityTable}

\* C30: a manifest name without an entry in the commodity table is used as
\* it is: no query raises, and every priced candidate reports the name,
\* unchanged, as matched or as missing
C30_UnresolvedNamePassesThrough ==
    /\ rank.raised = "none"
    /\ rank.pc \in {"ranked", "answered", "listened"} =>
          \A i \in DOMAIN rank.out :
             \A n \in Unresolved(rank.cargo) :
                \/ \E j \in DOMAIN rank.out[i].sale.matched :
                      rank.out[i].sale.matched[j].name = n
                \/ \E j \in DOMAIN rank.out[i].sale.missing :
                      rank.out[i].sale.missing[j] = n

----------------------------------------------------------------------------
(* Claims about the feed consumer, the batches and the shared cache *)

\* the stored keys of the cache whose entry a step changes
ChangedKeys == {k \in MarketKeys : market_db'[k] # market_db[k]}

\* C31: the feed handler changes the cache only for a record of the
\* commodity schema, and then only the snapshot of the record's (system,
\* station) and the dirty flag of its system; a record of any other schema
\* leaves every snapshot and every dirty flag as it was
C31_OnlyCommodityRecordsTouchCache ==
    [][feed' # feed =>
          /\ feed'.pc # "recv" => feed'.schema = MARKET_SCHEMA
          /\ feed.pc = "recv" => market_db' = market_db
          /\ market_db' # market_db =>
                /\ feed.schema = MARKET_SCHEMA
                /\ ChangedKeys \subseteq {SnapshotKey(feed.system, feed.station),
                                          DirtyKey(feed.system)}]_vars

C31_Witness ==
    /\ feed.pc = "recv"
    /\ feed.schema = "journal/1"
    /\ feed.handled = "ignored"
    /\ \E k \in StationKeys : db_exists(market_db, k)
    /\ \E n \in SystemNames : _dirty(market_db, n) = True

\* C32: no input ends the feed consumer: a message that cannot be
\* decompressed, parsed or read is dropped, and after a transport error the
\* consumer sleeps and connects again, so it is always receiving, handling a
\* record or waiting to reconnect
C32_ConsumerSurvivesInput ==
    /\ feed.pc \in {"recv", "delete", "flag", "sleep"}
    /\ feed.handled \notin InputFaults

\* C33: the systems a request dispatches are batched nearest first: every
\* batch but the last holds exactly BatchSize systems and the last at most
\* BatchSize, the systems of a batch are in ascending distance, and no
\* system of a batch is farther than a system of the next batch
C33_BatchesNearestFirst ==
    \A r \in DOMAIN requests :
        LET batches == requests[r].tasks
        IN  \A b \in DOMAIN batches :
               LET batch == batches[b].systems
               IN  /\ Len(batch) >= 1 /\ Len(batch) <= BatchSize
                   /\ b < Len(batches) => Len(batch) = BatchSize
                   /\ \A i, j \in DOMAIN batch :
                         i < j => batch[i].distance <= batch[j].distance
                   /\ b < Len(batches) =>
                         \A i \in DOMAIN batch :
                            \A j \in DOMAIN batches[b + 1].systems :
                               batch[i].distance
                                  <= batches[b + 1].systems[j].distance

C33_Witness ==
    \E r \in DOMAIN requests :
        /\ Len(requests[r].tasks) = 2
        /\ Len(requests[r].tasks[1].systems) = BatchSize
        /\ Len(requests[r].tasks[2].systems) < BatchSize
        /\ requests[r].systems[1].distance > requests[r].systems[2].distance

\* the lines of a snapshot by the exact names of the manifest
Present(cargo, commodities) ==
    SelectSeq(cargo, LAMBDA item : InMarket(commodities, item.name))

\* C34: in the ranker over the cached snapshots the matched commodities of a
\* candidate are the manifest's commodities its snapshot lists, at or below
\* the thresholds alike, the missing ones are those the snapshot does not
\* list, and the total is the sum of sell price times quantity over the
\* listed ones
C34_BelowThresholdIsMatched ==
    rank.pc = "cached" =>
        \A i \in DOMAIN rank.out :
            LET snapshot == market_find_one(rank.store,
                                            rank.out[i].market.system,
                                            rank.out[i].market.station)
                present == Present(rank.cargo, snapshot.commodities)
            IN  /\ {rank.out[i].sale.matched[j].name :
                       j \in DOMAIN rank.out[i].sale.matched}
                      = {present[j].name : j \in DOMAIN present}
                /\ {rank.out[i].sale.missing[j] :
                       j \in DOMAIN rank.out[i].sale.missing}
                      = Keys(rank.cargo) \ {present[j].name : j \in DOMAIN present}
                /\ rank.out[i].sale.total
                      = SumRevenue(Matches(rank.cargo, snapshot.commodities))

\* the _market calls for a key, and those that have gone past their
\* existence check
CallsFor(key) ==
    UNION {UNION {{<<t, i, j>> :
                      j \in {k \in DOMAIN tasks[t].item[i].st :
                                EligibleStations(tasks[t].systems[i].name)[k].name
                                   = key[2]}} :
                   i \in {k \in DOMAIN tasks[t].item :
                             tasks[t].systems[k].name = key[1]}} :
           t \in DOMAIN tasks}

StationState(o) == tasks[o[1]].item[o[2]].st[o[3]]

\* C35: a feed event for a key that is handled while a population task is
\* waiting for the market it has requested for that key is not lost: once
\* that task has stored what it requested (and no other call has fetched
\* the key), the cache does not hold the snapshot as the key's entry with the
\* system's flag not Dirty
C35_NoLostInvalidation ==
    \A o \in feed.inflight :
        (/\ feed.pc = "recv"
         /\ StationState(o) \in {"get", "done"}
         /\ \A c \in CallsFor(<<feed.system, feed.station>>) \ {o} :
               StationState(c) = "queued")
        => ~(/\ db_exists(market_db, <<feed.system, feed.station>>)
             /\ _dirty(market_db, feed.system) # True)

\* C36: a _market call that has checked or stored its key always reads the
\* snapshot back: whatever the feed handler does in between, the call's
\* final read returns and the station is done
C36_ReadBackNeverFails ==
    [][\A t \in DOMAIN tasks :
          \A i \in DOMAIN tasks[t].item :
             \A j \in DOMAIN tasks[t].item[i].st :
                (/\ tasks[t].item[i].st[j] = "get"
                 /\ tasks'[t].item[i].st # tasks[t].item[i].st
                 /\ tasks'[t].item[i].st[j] # "get")
                => tasks'[t].item[i].st[j] = "done"]_vars

\* C37: with no invalidation, the market of a key is requested from the
\* provider at most once, however many population tasks cover its system at
\* the same time: no two _market calls wait for the market of the same key
C37_OneFetchPerKey ==
    \A key \in StationKeys : Cardinality(InFlight(key)) <= 1

\* the key of a _market call
KeyOfCall(o) ==
    <<tasks[o[1]].systems[o[2]].name,
      EligibleStations(tasks[o[1]].systems[o[2]].name)[o[3]].name>>

\* the _market calls there are
Calls == UNION {CallsFor(key) : key \in StationKeys}

\* C38: a call that ends in an error stores nothing, in the memoizing cache
\* and in the market cache alike, and a call that finds no entry, after an
\* error too, sends a request; a call that succeeds stores what it fetched,
\* and a call that finds the entry sends no request and returns the entry
C38_FailedFetchIsNotCached ==
    [][/\ memo' # memo =>
             /\ memo'.raised =>
                   /\ memo'.cache = memo.cache
                   /\ memo'.cache[memo'.key] = Absent
             /\ memo.cache[memo'.key] = Absent =>
                   /\ memo'.requested
                   /\ ~memo'.raised => memo'.cache[memo'.key] = memo'.result
             /\ memo.cache[memo'.key] # Absent =>
                   /\ ~memo'.requested /\ ~memo'.raised
                   /\ memo'.result = memo.cache[memo'.key]
                   /\ memo'.cache = memo.cache
       /\ tasks' # tasks =>
             \A o \in Calls :
                LET before == StationState(o)
                    after == tasks'[o[1]].item[o[2]].st[o[3]]
                IN  /\ (before = "queued" /\ after \in {"fetching", "get"}) =>
                          (after = "fetching"
                              <=> ~db_exists(market_db, KeyOfCall(o)))
                    /\ (before = "fetching" /\ after = "failed") =>
                          market_db' = market_db
                    /\ (before = "fetching" /\ after = "get") =>
                          market_db'[SnapshotKey(KeyOfCall(o)[1],
                                                 KeyOfCall(o)[2])]
                             = Snapshot(KeyOfCall(o)[1], KeyOfCall(o)[2])]_vars

C38_Witness ==
    /\ memo.key \in MemoKeys
    /\ memo.cache[memo.key] # Absent
    /\ ~memo.requested
    /\ \E o \in Calls :
          /\ StationState(o) = "failed"
          /\ ~db_exists(market_db, KeyOfCall(o))
          /\ \E c \in CallsFor(KeyOfCall(o)) \ {o} : StationState(c) = "fetching"

\* C39: in the "markets" namespace the dirty flag of a system and the
\* snapshot of a station never have the same stored key, whatever the names:
\* what is read as a system's dirty flag is a flag, never a snapshot
C39_FlagAndSnapshotKeysApart ==
    /\ \A n \in KeySystems :
          DirtyKey(n) \in DOMAIN keyspace.db =>
             keyspace.db[DirtyKey(n)] \in {Absent, True, False}
    /\ keyspace.flag \in {None, True, False}
====
